---- MODULE Spec2Model ----
(***************************************************************************)
(* A model of automol.reac: the reaction-class dispatch of _scan.py and    *)
(* _zmat.py, the bond-key set algebra of _util.py and the per-class scan   *)
(* grids of _scan.py.                                                      *)
(*                                                                         *)
(* Python values are modelled as follows.                                  *)
(*  - An exception is the name of its Python type ("KeyError" for a failed *)
(*    dictionary lookup, "ValueError" for a failed tuple unpacking,        *)
(*    "TypeError" for arithmetic on None, "AssertionError" for a failed    *)
(*    assert); "none" means the call returned.                             *)
(*  - None is the empty sequence <<>>; a present value x is <<x>>.         *)
(*  - A float is a fixed-point integer with four decimals (1.0 is 10000);  *)
(*    products truncate.  phycon.ANG2BOHR is 1.8897.                       *)
(*  - A bond key (frozenset of two atom keys) is a two-element set.        *)
(*  - A z-matrix coordinate name is modelled by what it names.             *)
(***************************************************************************)
EXTENDS Integers, Sequences, FiniteSets, TLC

VARIABLES pc, op, rxn, env, ret, heap, frames, given

vars == <<pc, op, rxn, env, ret, heap, frames, given>>

(***************************************************************************)
(* Bounds of the model.                                                    *)
(***************************************************************************)
\* atom keys are 1..NAtoms
NAtoms == 5
\* a TS graph carries at most MaxTagged forming plus breaking bonds
MaxTagged == 3
\* reference bond lengths are 1.1 A + 0.4 A * i for i in 0..MaxLenIdx
MaxLenIdx == 3

(***************************************************************************)
(* Numbers.                                                                *)
(***************************************************************************)
\* phycon.ANG2BOHR, four decimals
ANG2BOHR == 18897

\* the fixed-point 1.0
ONE == 100 * 100

\* the float literal with c hundredths: D(154) is 1.54
D(c) == c * 100

\* the float product a * b
Mul(a, b) == (a * b) \div ONE

\* math.ceil(a / b) for b > 0
CeilDiv(a, b) == 0 - ((0 - a) \div b)

None == <<>>

Some(x) == <<x>>

IsNone(x) == x = <<>>

Get(x) == x[1]

(***************************************************************************)
(* Reactions and TS graphs.                                                *)
(***************************************************************************)
Atoms == 1..NAtoms

BondKeys == {b \in SUBSET Atoms : Cardinality(b) = 2}

\* the 8 members of ReactionClass the tables of _scan.py and _zmat.py name
Classes ==
  {"HYDROGEN_MIGRATION", "BETA_SCISSION", "RING_FORM_SCISSION", "ELIMINATION",
   "HYDROGEN_ABSTRACTION", "ADDITION", "INSERTION", "SUBSTITUTION"}

\* class tags a Reaction may carry: the 8 above and one foreign tag
Tags == Classes \cup {"PHOTOLYSIS"}

\* a TS graph, reduced to its tagged bonds; a bond has one tag at most
RECURSIVE SubsetsUpTo(_, _)
SubsetsUpTo(S, k) ==
  IF k = 0 THEN {{}}
  ELSE LET prev == SubsetsUpTo(S, k - 1) IN prev \cup {p \cup {x} : p \in prev, x \in S}

TSGraphs ==
  UNION {{[frm |-> f, brk |-> b] :
            b \in SubsetsUpTo(BondKeys \ f, MaxTagged - Cardinality(f))} :
         f \in SubsetsUpTo(BondKeys, MaxTagged)}

Reactions == {[class_ |-> c, forward_ts_graph |-> g] : c \in Tags, g \in TSGraphs}

\* ts.forming_bond_keys(tsg)
FormingBondKeys(tsg) == tsg.frm

\* ts.breaking_bond_keys(tsg)
BreakingBondKeys(tsg) == tsg.brk

(***************************************************************************)
(* Results of a call: the exception raised ("none": it returned), the      *)
(* per-class computations entered so far, and the value returned.          *)
(***************************************************************************)
Ok(calls, v) == [err |-> "none", calls |-> calls, val |-> v]

Raise(e, calls) == [err |-> e, calls |-> calls, val |-> <<>>]

\* the Python unpacking `x, = S` succeeds exactly on a one-element S
Unpacks1(S) == Cardinality(S) = 1

TheOne(S) == CHOOSE x \in S : TRUE

(***************************************************************************)
(* _util.py: atom roles from bond-key set algebra.                         *)
(***************************************************************************)
\* the attacking atom taken from the wrong side of the difference
AttackingKeysFromBreaking(frm_bnd_key, brk_bnd_key) == brk_bnd_key \ frm_bnd_key

\* att_key, = frm_bnd_key - brk_bnd_key
AttackingKeys(frm_bnd_key, brk_bnd_key) == frm_bnd_key \ brk_bnd_key

\* tra_key, = frm_bnd_key & brk_bnd_key
TransferringKeys(frm_bnd_key, brk_bnd_key) == frm_bnd_key \cap brk_bnd_key

\* don_key, = brk_bnd_key - frm_bnd_key
DonatingKeys(frm_bnd_key, brk_bnd_key) == brk_bnd_key \ frm_bnd_key

\* frm_bnd_key, = ts.forming_bond_keys(rxn.forward_ts_graph)
UnpacksFormingBondKey(tsg) == Unpacks1(FormingBondKeys(tsg))

\* any breaking bond taken instead of the only one
UnpacksBreakingBondKeyAny(tsg) == BreakingBondKeys(tsg) # {}

\* brk_bnd_key, = ts.breaking_bond_keys(rxn.forward_ts_graph)
UnpacksBreakingBondKey(tsg) == Unpacks1(BreakingBondKeys(tsg))

\* the five unpackings shared by the *_atom_keys functions, in order; the
\* value is <<att_key, tra_key, don_key>>
AtomKeys(r) ==
  LET tsg == r.forward_ts_graph IN
  IF ~UnpacksFormingBondKey(tsg) THEN Raise("ValueError", <<>>)
  ELSE IF ~UnpacksBreakingBondKey(tsg) THEN Raise("ValueError", <<>>)
  ELSE
    LET frm_bnd_key == TheOne(FormingBondKeys(tsg))
        brk_bnd_key == TheOne(BreakingBondKeys(tsg))
        tra == TransferringKeys(frm_bnd_key, brk_bnd_key)
        att == AttackingKeys(frm_bnd_key, brk_bnd_key)
        don == DonatingKeys(frm_bnd_key, brk_bnd_key)
    IN IF ~Unpacks1(tra) THEN Raise("ValueError", <<>>)
       ELSE IF ~Unpacks1(att) THEN Raise("ValueError", <<>>)
       ELSE IF ~Unpacks1(don) THEN Raise("ValueError", <<>>)
       ELSE Ok(<<>>, <<TheOne(att), TheOne(tra), TheOne(don)>>)

\* hydrogen_migration_atom_keys; e.ngb_key is what the graph collaborator
\* (shortest_path_between_atoms, atom_neighbor_atom_key) answers
HydrogenMigrationAtomKeys(r, e) ==
  LET k == AtomKeys(r) IN
  IF k.err # "none" THEN k
  ELSE Ok(<<>>, <<k.val[1], k.val[2], k.val[3], e.ngb_key>>)

RingFormingScissionAtomKeys(r) == AtomKeys(r)

HydrogenAbstractionAtomKeys(r) == AtomKeys(r)

SubstitutionAtomKeys(r) == AtomKeys(r)

\* the key `sorted` gives a bond key: its sorted atom-key tuple, compared
\* lexicographically
Min(S) == CHOOSE x \in S : \A y \in S : x <= y

Max(S) == CHOOSE x \in S : \A y \in S : y <= x

SortedTupleKey(bnd) == Min(bnd) * (NAtoms + 2) + Max(bnd)

\* len(x & brk_bnd_key)
IntersectionKey(bnd, brk_bnd_key) == Cardinality(bnd \cap brk_bnd_key)

\* x goes behind every element whose key is not greater: the sort is stable
RECURSIVE InsertStable(_, _, _)
InsertStable(x, s, key) ==
  IF s = <<>> THEN <<x>>
  ELSE IF key[Head(s)] <= key[x] THEN <<Head(s)>> \o InsertStable(x, Tail(s), key)
  ELSE <<x>> \o s

\* Python's sorted(s, key=...): stable, ascending
RECURSIVE SortedFrom(_, _, _)
SortedFrom(s, acc, key) ==
  IF s = <<>> THEN acc ELSE SortedFrom(Tail(s), InsertStable(Head(s), acc, key), key)

Sorted(s, key) == SortedFrom(s, <<>>, key)

Range(s) == {s[i] : i \in DOMAIN s}

\* the orders in which a set may be enumerated
Enumerations(S) ==
  {s \in [1..Cardinality(S) -> S] : Range(s) = S}

\* the first sort left out: the bonds in the order of their enumeration
SortFormingBySortedTupleSkipped(enum) == enum

\* frm_bnd_keys = sorted(ts.forming_bond_keys(...), key=sorted)
SortFormingBySortedTuple(enum) ==
  Sorted(enum, [b \in Range(enum) |-> SortedTupleKey(b)])

\* the second sort left out
SortFormingByIntersectionSkipped(frm_bnd_keys, brk_bnd_key) == frm_bnd_keys

\* frm_bnd_keys = sorted(frm_bnd_keys, key=lambda x: len(x & brk_bnd_key))
SortFormingByIntersection(frm_bnd_keys, brk_bnd_key) ==
  Sorted(frm_bnd_keys,
         [b \in Range(frm_bnd_keys) |-> IntersectionKey(b, brk_bnd_key)])

\* insertion_forming_bond_keys; e.frm_enum is the order in which the set of
\* forming bond keys is enumerated
InsertionFormingBondKeys(r, e) ==
  IF r.class_ # "INSERTION" THEN Raise("AssertionError", <<>>)
  ELSE IF ~UnpacksBreakingBondKey(r.forward_ts_graph) THEN Raise("ValueError", <<>>)
  ELSE
    LET brk_bnd_key == TheOne(BreakingBondKeys(r.forward_ts_graph))
    IN Ok(<<>>, SortFormingByIntersection(SortFormingBySortedTuple(e.frm_enum),
                                          brk_bnd_key))

(***************************************************************************)
(* The z-matrix and graph collaborators.  What they answer is drawn with   *)
(* the arguments of a call and kept in env:                                *)
(*   bnd_len   what _ts_bnd_len finds in bnd.LEN_DCT for the scan          *)
(*             coordinate's element pair (None: the pair is not there)     *)
(*   ngb_key   atom_neighbor_atom_key of the attacking atom                *)
(*   chain     shortest_path_between_atoms(gra, don_key, att_key)          *)
(*   frm_enum  the order in which the forming-bond set is enumerated       *)
(***************************************************************************)
\* automol.zmat.distance_coordinate_name(zma, *bnd_key)
DistanceCoordinateName(bnd_key) == [coo |-> "distance", keys |-> bnd_key]

\* automol.zmat.central_angle_coordinate_name(zma, *ks)
CentralAngleCoordinateName(ks) == [coo |-> "central_angle", keys |-> ks]

\* automol.zmat.dihedral_angle_coordinate_name(zma, *ks)
DihedralAngleCoordinateName(ks) == [coo |-> "dihedral_angle", keys |-> ks]

\* automol.zmat.constraint_dct(zma, const_names), by its keys
ConstraintDct(const_names) == const_names

\* what bnd.LEN_DCT holds for the element pair of any bond but e.len_key:
\* 0.9 A
OtherBndLen == <<(D(90) * ANG2BOHR) \div ONE>>

\* _ts_bnd_len: the reference length of the bond the coordinate names
TsBndLen(e, scan_name) ==
  IF scan_name.keys = e.len_key THEN e.bnd_len ELSE OtherBndLen

(***************************************************************************)
(* _scan.py: scan and constraint coordinates.                              *)
(***************************************************************************)
\* frm_bnd_key, = ts.forming_bond_keys(...); the name of its distance
FormingBondScanCoordinate(r) ==
  IF ~UnpacksFormingBondKey(r.forward_ts_graph) THEN Raise("ValueError", <<>>)
  ELSE Ok(<<>>, DistanceCoordinateName(TheOne(FormingBondKeys(r.forward_ts_graph))))

\* brk_bnd_key, = ts.breaking_bond_keys(...); the name of its distance
BreakingBondScanCoordinate(r) ==
  IF ~UnpacksBreakingBondKey(r.forward_ts_graph) THEN Raise("ValueError", <<>>)
  ELSE Ok(<<>>, DistanceCoordinateName(TheOne(BreakingBondKeys(r.forward_ts_graph))))

HydrogenMigrationScanCoordinate(r, e) == FormingBondScanCoordinate(r)

BetaScissionScanCoordinate(r, e) == BreakingBondScanCoordinate(r)

RingFormingScissionScanCoordinate(r, e) == BreakingBondScanCoordinate(r)

EliminationScanCoordinate(r, e) == FormingBondScanCoordinate(r)

HydrogenAbstractionScanCoordinate(r, e) == FormingBondScanCoordinate(r)

AdditionScanCoordinate(r, e) == FormingBondScanCoordinate(r)

\* frm_bnd_key, _ = insertion_forming_bond_keys(rxn)
\* the second bond of insertion_forming_bond_keys taken for the first
InsertionScanCoordinateSecondBond(r, e) ==
  LET k == InsertionFormingBondKeys(r, e) IN
  IF k.err # "none" THEN k
  ELSE IF Len(k.val) # 2 THEN Raise("ValueError", <<>>)
  ELSE Ok(<<>>, DistanceCoordinateName(k.val[2]))

InsertionScanCoordinate(r, e) ==
  LET k == InsertionFormingBondKeys(r, e) IN
  IF k.err # "none" THEN k
  ELSE IF Len(k.val) # 2 THEN Raise("ValueError", <<>>)
  ELSE Ok(<<>>, DistanceCoordinateName(k.val[1]))

SubstitutionScanCoordinate(r, e) == FormingBondScanCoordinate(r)

\* the distance to the donating atom constrained instead
HydrogenMigrationConstraintCoordinatesToDonor(r, e) ==
  LET k == HydrogenMigrationAtomKeys(r, e) IN
  IF k.err # "none" THEN k
  ELSE Ok(<<>>, <<DistanceCoordinateName({k.val[1], k.val[3]})>>)

HydrogenMigrationConstraintCoordinates(r, e) ==
  LET k == HydrogenMigrationAtomKeys(r, e) IN
  IF k.err # "none" THEN k
  ELSE Ok(<<>>, <<DistanceCoordinateName({k.val[1], k.val[4]})>>)

\* ring_forming_scission_chain
RingFormingScissionChain(r, e) ==
  LET k == RingFormingScissionAtomKeys(r) IN
  IF k.err # "none" THEN k ELSE Ok(<<>>, e.chain)

\* more_itertools.windowed(seq, n): every run of n consecutive elements; a
\* seq shorter than n gives one window, padded with None
Windowed(seq, n) ==
  IF Len(seq) < n
  THEN <<[i \in 1..n |-> IF i <= Len(seq) THEN seq[i] ELSE None]>>
  ELSE [w \in 1..(Len(seq) - n + 1) |-> [i \in 1..n |-> seq[w + i - 1]]]

\* the key by which sorted() orders tuples of atom keys
RECURSIVE TupleKey(_)
TupleKey(t) ==
  IF t = <<>> THEN 0 ELSE t[Len(t)] + (NAtoms + 2) * TupleKey(SubSeq(t, 1, Len(t) - 1))

\* sorted(mit.windowed(...)): a single window is never compared
SortedWindows(ws) ==
  IF Len(ws) <= 1 THEN ws ELSE Sorted(ws, [w \in Range(ws) |-> TupleKey(w)])

RingFormingScissionConstraintCoordinates(r, e) ==
  LET c == RingFormingScissionChain(r, e) IN
  IF c.err # "none" THEN c
  ELSE
    LET chain_keys == c.val
        ang_keys_lst == SortedWindows(Windowed(SubSeq(chain_keys, 2, Len(chain_keys)), 3))
        dih_keys_lst == SortedWindows(Windowed(chain_keys, 4))
        ang_names == [i \in DOMAIN ang_keys_lst |->
                        CentralAngleCoordinateName(ang_keys_lst[i])]
        dih_names == [i \in DOMAIN dih_keys_lst |->
                        DihedralAngleCoordinateName(dih_keys_lst[i])]
    IN Ok(<<>>, ang_names \o dih_names)

ReturnEmptyTuple(r, e) == Ok(<<>>, <<>>)

\* function_dct of scan_coordinate
ScanCoordinateFunctionDct ==
     ("HYDROGEN_MIGRATION" :> "hydrogen_migration_scan_coordinate")
  @@ ("BETA_SCISSION" :> "beta_scission_scan_coordinate")
  @@ ("RING_FORM_SCISSION" :> "ring_forming_scission_scan_coordinate")
  @@ ("ELIMINATION" :> "elimination_scan_coordinate")
  @@ ("HYDROGEN_ABSTRACTION" :> "hydrogen_abstraction_scan_coordinate")
  @@ ("ADDITION" :> "addition_scan_coordinate")
  @@ ("INSERTION" :> "insertion_scan_coordinate")
  @@ ("SUBSTITUTION" :> "substitution_scan_coordinate")

\* fun_(rxn, zma) for a fun_ of the tables of _scan.py
ApplyCoordinateFunction(fun_, r, e) ==
  CASE fun_ = "hydrogen_migration_scan_coordinate" -> HydrogenMigrationScanCoordinate(r, e)
    [] fun_ = "beta_scission_scan_coordinate" -> BetaScissionScanCoordinate(r, e)
    [] fun_ = "ring_forming_scission_scan_coordinate" ->
         RingFormingScissionScanCoordinate(r, e)
    [] fun_ = "elimination_scan_coordinate" -> EliminationScanCoordinate(r, e)
    [] fun_ = "hydrogen_abstraction_scan_coordinate" ->
         HydrogenAbstractionScanCoordinate(r, e)
    [] fun_ = "addition_scan_coordinate" -> AdditionScanCoordinate(r, e)
    [] fun_ = "insertion_scan_coordinate" -> InsertionScanCoordinate(r, e)
    [] fun_ = "substitution_scan_coordinate" -> SubstitutionScanCoordinate(r, e)
    [] fun_ = "hydrogen_migration_constraint_coordinates" ->
         HydrogenMigrationConstraintCoordinates(r, e)
    [] fun_ = "ring_forming_scission_constraint_coordinates" ->
         RingFormingScissionConstraintCoordinates(r, e)
    [] fun_ = "_return_empty_tuple" -> ReturnEmptyTuple(r, e)

\* a lookup that falls back on a default function instead of raising
DispatchWithDefault(function_dct, r, e) ==
  LET fun_ == IF r.class_ \in DOMAIN function_dct THEN function_dct[r.class_]
              ELSE "_return_empty_tuple"
      res == ApplyCoordinateFunction(fun_, r, e)
  IN [res EXCEPT !.calls = <<fun_>>]

\* a table lookup function_dct[rxn.class_] followed by the call fun_(rxn, zma):
\* a missing key raises KeyError before anything is called
Dispatch(function_dct, r, e) ==
  IF r.class_ \notin DOMAIN function_dct THEN Raise("KeyError", <<>>)
  ELSE LET fun_ == function_dct[r.class_]
           res == ApplyCoordinateFunction(fun_, r, e)
       IN [res EXCEPT !.calls = <<fun_>>]

ScanCoordinate(r, e) == Dispatch(ScanCoordinateFunctionDct, r, e)

\* function_dct of constraint_coordinates
ConstraintCoordinatesFunctionDct ==
     ("HYDROGEN_MIGRATION" :> "hydrogen_migration_constraint_coordinates")
  @@ ("BETA_SCISSION" :> "_return_empty_tuple")
  @@ ("RING_FORM_SCISSION" :> "ring_forming_scission_constraint_coordinates")
  @@ ("ELIMINATION" :> "_return_empty_tuple")
  @@ ("HYDROGEN_ABSTRACTION" :> "_return_empty_tuple")
  @@ ("ADDITION" :> "_return_empty_tuple")
  @@ ("INSERTION" :> "_return_empty_tuple")
  @@ ("SUBSTITUTION" :> "_return_empty_tuple")

ConstraintCoordinates(r, e) == Dispatch(ConstraintCoordinatesFunctionDct, r, e)

(***************************************************************************)
(* _scan.py: grids.                                                        *)
(***************************************************************************)
\* numpy.linspace(start, stop, num): num points, the first start, the last
\* stop (for num > 1), equally spaced
Linspace(start, stop, num) ==
  [i \in 1..num |->
     IF num = 1 THEN start
     ELSE IF i = num THEN stop
     ELSE start + ((i - 1) * (stop - start)) \div (num - 1)]

\* the step divided by the growth factor
GrowStepShrinking(rstp, gfact) == (rstp * ONE) \div gfact

\* rstp = rstp * gfact
GrowStep(rstp, gfact) == Mul(rstp, gfact)

\* the loop of _geometric_progression, with k iterations left
RECURSIVE GeometricLoop(_, _, _, _, _, _)
GeometricLoop(grid, rgrid, rstp, rmax, gfact, k) ==
  IF k = 0 THEN grid
  ELSE LET nxt == rgrid + rstp IN
       IF nxt = rmax THEN grid
       ELSE GeometricLoop(Append(grid, nxt), nxt, GrowStep(rstp, gfact), rmax, gfact, k - 1)

\* _geometric_progression
GeometricProgression(rmin, rmax, npoints, gfact, rstp) ==
  GeometricLoop(<<rmin>>, rmin, rstp, rmax, gfact, npoints)

\* the point count rounded down instead of up
HydrogenMigrationGrid1RoundedDown(rmax, rmin1, interval) ==
  IF rmax > rmin1
  THEN LET npoints == (rmax - rmin1) \div interval IN
       IF npoints < 1 THEN <<>> ELSE Linspace(rmax, rmin1, npoints)
  ELSE <<>>

\* the first segment of hydrogen_migration_grid
HydrogenMigrationGrid1(rmax, rmin1, interval) ==
  IF rmax > rmin1
  THEN LET npoints == CeilDiv(rmax - rmin1, interval) IN
       IF npoints < 1 THEN <<>> ELSE Linspace(rmax, rmin1, npoints)
  ELSE <<>>

\* rmin2 anchored on rmin1 instead of on the forming length
HydrogenMigrationRmin2FromRmin1(frm_bnd_len) ==
  Mul(D(200), ANG2BOHR) + Mul(D(5), ANG2BOHR)

\* rmin2 = frm_bnd_len + 0.05 * phycon.ANG2BOHR
HydrogenMigrationRmin2(frm_bnd_len) == frm_bnd_len + Mul(D(5), ANG2BOHR)

HydrogenMigrationGrid(r, e) ==
  LET sc == HydrogenMigrationScanCoordinate(r, e) IN
  IF sc.err # "none" THEN sc
  ELSE
    LET interval == Mul(D(30), ANG2BOHR)
        frm_bnd_len == TsBndLen(e, sc.val)
        rmin1 == Mul(D(200), ANG2BOHR)
    IN IF IsNone(frm_bnd_len) THEN Raise("TypeError", <<>>)
       ELSE LET rmin2 == HydrogenMigrationRmin2(Get(frm_bnd_len))
                rmax == Get(frm_bnd_len)
                grid1 == HydrogenMigrationGrid1(rmax, rmin1, interval)
                grid2 == Linspace(rmin1, rmin2, 18)
            IN Ok(<<>>, grid1 \o grid2)

\* the default range derived from a default bond of 1.4 A
BetaScissionDefaultRangeFromBond ==
  <<Mul(D(140), ANG2BOHR) + Mul(D(10), ANG2BOHR),
    Mul(D(140), ANG2BOHR) + Mul(D(80), ANG2BOHR)>>

\* the else branch of beta_scission_grid: <<rmin, rmax>>
BetaScissionDefaultRange == <<Mul(D(140), ANG2BOHR), Mul(D(200), ANG2BOHR)>>

\* the range of the ring-forming scission copied into beta scission
BetaScissionRangeCopied(frm_bnd_len) ==
  <<frm_bnd_len + Mul(D(10), ANG2BOHR), frm_bnd_len + Mul(D(70), ANG2BOHR)>>

\* the if branch of beta_scission_grid: <<rmin, rmax>>
BetaScissionRange(frm_bnd_len) ==
  <<frm_bnd_len + Mul(D(10), ANG2BOHR), frm_bnd_len + Mul(D(80), ANG2BOHR)>>

BetaScissionGrid(r, e) ==
  LET sc == BetaScissionScanCoordinate(r, e) IN
  IF sc.err # "none" THEN sc
  ELSE
    LET npoints1 == 14
        frm_bnd_len == TsBndLen(e, sc.val)
        rng == IF ~IsNone(frm_bnd_len) THEN BetaScissionRange(Get(frm_bnd_len))
               ELSE BetaScissionDefaultRange
    IN Ok(<<>>, Linspace(rng[1], rng[2], npoints1))

\* the if branch of ring_forming_scission_grid: <<r1min, r1max>>
RingFormingScissionRange(brk_bnd_len) ==
  <<brk_bnd_len + Mul(D(10), ANG2BOHR), brk_bnd_len + Mul(D(70), ANG2BOHR)>>

\* the length looked up for the forming bond
RingFormingScissionGridOnFormingBond(r, e) ==
  LET sc == FormingBondScanCoordinate(r) IN
  IF sc.err # "none" THEN sc
  ELSE
    LET npoints1 == 7
        brk_bnd_len == TsBndLen(e, sc.val)
        rng == IF ~IsNone(brk_bnd_len) THEN RingFormingScissionRange(Get(brk_bnd_len))
               ELSE <<Mul(D(154) + D(10), ANG2BOHR), Mul(D(154) + D(70), ANG2BOHR)>>
    IN Ok(<<>>, Linspace(rng[1], rng[2], npoints1))

RingFormingScissionGrid(r, e) ==
  LET sc == RingFormingScissionScanCoordinate(r, e) IN
  IF sc.err # "none" THEN sc
  ELSE
    LET npoints1 == 7
        brk_bnd_len == TsBndLen(e, sc.val)
        rng == IF ~IsNone(brk_bnd_len) THEN RingFormingScissionRange(Get(brk_bnd_len))
               ELSE <<Mul(D(154) + D(10), ANG2BOHR), Mul(D(154) + D(70), ANG2BOHR)>>
    IN Ok(<<>>, Linspace(rng[1], rng[2], npoints1))

\* numpy.linspace(...) * phycon.ANG2BOHR
TimesAng2Bohr(grid) == [i \in DOMAIN grid |-> Mul(grid[i], ANG2BOHR)]

EliminationGrid(r, e) ==
  LET sc == EliminationScanCoordinate(r, e) IN
  IF sc.err # "none" THEN sc
  ELSE
    LET npoints1 == 8
        npoints2 == 4
        frm_bnd_len == TsBndLen(e, sc.val)
        brk_bnd_len == None
        r1 == IF ~IsNone(frm_bnd_len)
              THEN <<Get(frm_bnd_len) + D(20), Get(frm_bnd_len) + D(140)>>
              ELSE <<Mul(D(154) + D(20), ANG2BOHR), Mul(D(154) + D(140), ANG2BOHR)>>
        r2 == IF ~IsNone(brk_bnd_len)
              THEN <<Get(brk_bnd_len) + D(20), Get(brk_bnd_len) + D(80)>>
              ELSE <<Mul(D(74) + D(20), ANG2BOHR), Mul(D(74) + D(80), ANG2BOHR)>>
        grid1 == TimesAng2Bohr(Linspace(r1[1], r1[2], npoints1))
        grid2 == TimesAng2Bohr(Linspace(r2[1], r2[2], npoints2))
    IN Ok(<<>>, <<grid1, grid2>>)

\* the if branch of hydrogen_abstraction_grid: <<rmin, rmax>>
HydrogenAbstractionRange(frm_bnd_len) ==
  <<frm_bnd_len + Mul(D(10), ANG2BOHR), frm_bnd_len + Mul(D(100), ANG2BOHR)>>

HydrogenAbstractionGrid(r, e) ==
  LET sc == HydrogenAbstractionScanCoordinate(r, e) IN
  IF sc.err # "none" THEN sc
  ELSE
    LET npoints1 == 8
        frm_bnd_len == TsBndLen(e, sc.val)
        rng == IF ~IsNone(frm_bnd_len) THEN HydrogenAbstractionRange(Get(frm_bnd_len))
               ELSE <<Mul(D(70), ANG2BOHR), Mul(D(220), ANG2BOHR)>>
    IN Ok(<<>>, Linspace(rng[1], rng[2], npoints1))

\* <<rmin, rmax>> of addition_grid
AdditionRange(frm_bnd_len) ==
  IF ~IsNone(frm_bnd_len)
  THEN <<Get(frm_bnd_len) + Mul(D(10), ANG2BOHR), Get(frm_bnd_len) + Mul(D(120), ANG2BOHR)>>
  ELSE <<Mul(D(160), ANG2BOHR), Mul(D(280), ANG2BOHR)>>

AdditionGrid(r, e) ==
  LET sc == AdditionScanCoordinate(r, e) IN
  IF sc.err # "none" THEN sc
  ELSE
    LET npoints1 == 14
        rng == AdditionRange(TsBndLen(e, sc.val))
    IN Ok(<<>>, GeometricProgression(rng[1], rng[2], npoints1, D(110), D(5)))

\* the if branch of insertion_grid: <<rmin, rmax>>
InsertionRange(frm_bnd_len) == <<frm_bnd_len, frm_bnd_len + Mul(D(140), ANG2BOHR)>>

InsertionGrid(r, e) ==
  LET sc == InsertionScanCoordinate(r, e) IN
  IF sc.err # "none" THEN sc
  ELSE
    LET npoints1 == 16
        frm_bnd_len == TsBndLen(e, sc.val)
        rng == IF ~IsNone(frm_bnd_len) THEN InsertionRange(Get(frm_bnd_len))
               ELSE <<Mul(D(140), ANG2BOHR), Mul(D(240), ANG2BOHR)>>
    IN Ok(<<>>, Linspace(rng[1], rng[2], npoints1))

\* the if branch of substitution_grid: <<rmin, rmax>>
SubstitutionRange(frm_bnd_len) == <<frm_bnd_len, frm_bnd_len + Mul(D(140), ANG2BOHR)>>

SubstitutionGrid(r, e) ==
  LET sc == SubstitutionScanCoordinate(r, e) IN
  IF sc.err # "none" THEN sc
  ELSE
    LET npoints1 == 14
        frm_bnd_len == TsBndLen(e, sc.val)
        rng == IF ~IsNone(frm_bnd_len) THEN SubstitutionRange(Get(frm_bnd_len))
               ELSE <<Mul(D(70), ANG2BOHR), Mul(D(240), ANG2BOHR)>>
    IN Ok(<<>>, Linspace(rng[1], rng[2], npoints1))

\* scan_grid's table with the INSERTION entry left out
TightTsGridBuilderDctNoInsertion ==
     ("BETA_SCISSION" :> "beta_scission_grid")
  @@ ("ADDITION" :> "addition_grid")
  @@ ("HYDROGEN_MIGRATION" :> "hydrogen_migration_grid")
  @@ ("ELIMINATION" :> "elimination_grid")
  @@ ("RING_FORM_SCISSION" :> "ring_forming_scission_grid")
  @@ ("HYDROGEN_ABSTRACTION" :> "hydrogen_abstraction_grid")
  @@ ("SUBSTITUTION" :> "substitution_grid")

\* tight_ts_grid_builder_dct of scan_grid
TightTsGridBuilderDct ==
     ("BETA_SCISSION" :> "beta_scission_grid")
  @@ ("ADDITION" :> "addition_grid")
  @@ ("HYDROGEN_MIGRATION" :> "hydrogen_migration_grid")
  @@ ("ELIMINATION" :> "elimination_grid")
  @@ ("RING_FORM_SCISSION" :> "ring_forming_scission_grid")
  @@ ("HYDROGEN_ABSTRACTION" :> "hydrogen_abstraction_grid")
  @@ ("SUBSTITUTION" :> "substitution_grid")
  @@ ("INSERTION" :> "insertion_grid")

\* tight_ts_grid_builder_dct[zrxn.class_](zrxn, zma)
ApplyGridBuilder(fun_, r, e) ==
  CASE fun_ = "beta_scission_grid" -> BetaScissionGrid(r, e)
    [] fun_ = "addition_grid" -> AdditionGrid(r, e)
    [] fun_ = "hydrogen_migration_grid" -> HydrogenMigrationGrid(r, e)
    [] fun_ = "elimination_grid" -> EliminationGrid(r, e)
    [] fun_ = "ring_forming_scission_grid" -> RingFormingScissionGrid(r, e)
    [] fun_ = "hydrogen_abstraction_grid" -> HydrogenAbstractionGrid(r, e)
    [] fun_ = "substitution_grid" -> SubstitutionGrid(r, e)
    [] fun_ = "insertion_grid" -> InsertionGrid(r, e)

ScanGrid(r, e) ==
  IF r.class_ \notin DOMAIN TightTsGridBuilderDct THEN Raise("KeyError", <<>>)
  ELSE LET fun_ == TightTsGridBuilderDct[r.class_]
           res == ApplyGridBuilder(fun_, r, e)
       IN [res EXCEPT !.calls = <<fun_>>]

\* the guess updated for the ring-forming scission as well
UpdateGuessDctWithRingScission ==
     ("BETA_SCISSION" :> FALSE)
  @@ ("ADDITION" :> FALSE)
  @@ ("HYDROGEN_MIGRATION" :> TRUE)
  @@ ("ELIMINATION" :> FALSE)
  @@ ("RING_FORM_SCISSION" :> TRUE)
  @@ ("HYDROGEN_ABSTRACTION" :> FALSE)
  @@ ("SUBSTITUTION" :> FALSE)
  @@ ("INSERTION" :> FALSE)

UPDATE_GUESS_DCT ==
     ("BETA_SCISSION" :> FALSE)
  @@ ("ADDITION" :> FALSE)
  @@ ("HYDROGEN_MIGRATION" :> TRUE)
  @@ ("ELIMINATION" :> FALSE)
  @@ ("RING_FORM_SCISSION" :> FALSE)
  @@ ("HYDROGEN_ABSTRACTION" :> FALSE)
  @@ ("SUBSTITUTION" :> FALSE)
  @@ ("INSERTION" :> FALSE)

\* build_scan_info: the four steps in order; an exception ends the call
\* with the computations entered so far
BuildScanInfo(r, e) ==
  LET sc == ScanCoordinate(r, e) IN
  IF sc.err # "none" THEN sc
  ELSE
    LET cc == ConstraintCoordinates(r, e)
        calls2 == sc.calls \o cc.calls
    IN IF cc.err # "none" THEN Raise(cc.err, calls2)
       ELSE
         LET constraint_dct == ConstraintDct(cc.val)
             calls3 == Append(calls2, "constraint_dct")
             gr == ScanGrid(r, e)
             calls4 == calls3 \o gr.calls
         IN IF gr.err # "none" THEN Raise(gr.err, calls4)
            ELSE IF r.class_ \notin DOMAIN UPDATE_GUESS_DCT THEN Raise("KeyError", calls4)
            ELSE Ok(calls4, [scan_names |-> <<sc.val>>,
                             constraint_dct |-> constraint_dct,
                             grids |-> <<gr.val>>,
                             update_guess |-> UPDATE_GUESS_DCT[r.class_]])

(***************************************************************************)
(* _zmat.py: TS z-matrices.  A Reaction is taken with the atom keys of its *)
(* TS graph and its reactants_keys.  The geometry, graph and z-matrix      *)
(* collaborators answer from env:                                          *)
(*   lin             automol.geom.linear_atoms(ts_geo)                     *)
(*   rings           ts.forming_rings_atom_keys(tsg)                       *)
(*   sig_rad_keys    automol.graph.sigma_radical_atom_keys(rct_gra)        *)
(*   path            automol.graph.shortest_path_between_groups(...)       *)
(*   brk_enum        the order in which the breaking-bond set is           *)
(*                   enumerated                                            *)
(*   reactants_keys  rxn.reactants_keys                                    *)
(* The result of a builder is reduced to zma_keys, dummy_key_dct and the   *)
(* atom keys of the dummy-augmented geometry.                              *)
(***************************************************************************)
\* a set of keys as an ascending list
RECURSIVE SortedKeys(_)
SortedKeys(S) == IF S = {} THEN <<>> ELSE <<Min(S)>> \o SortedKeys(S \ {Min(S)})

Reverse(s) == [i \in 1..Len(s) |-> s[Len(s) + 1 - i]]

\* the Reaction object: class_, forward_ts_graph (with its atom keys) and
\* reactants_keys
ReactionObject(r, e) ==
  [class_ |-> r.class_,
   forward_ts_graph |-> r.forward_ts_graph,
   atom_keys |-> Atoms,
   reactants_keys |-> e.reactants_keys]

\* rxn.copy(): an independent value
CopyOf(o) == o

\* itertools.dropwhile(lambda x: x != key, itertools.cycle(keys)), len(keys)
Rotated(keys, key) ==
  LET i == Min({j \in DOMAIN keys : keys[j] = key})
  IN SubSeq(keys, i, Len(keys)) \o SubSeq(keys, 1, i - 1)

\* the cycle rotated but never reversed
CycleRingAtomKeyToFrontNeverReversed(keys, key, end_key) ==
  IF key \notin Range(keys) THEN Raise("AssertionError", <<>>)
  ELSE Ok(<<>>, Rotated(keys, key))

\* automol.graph.cycle_ring_atom_key_to_front(keys, key, end_key): the
\* cycle rotated to begin at key and, when an end key is given, reversed
\* if needed to end at it.  A key outside the cycle, or an end key that
\* neither the cycle nor its reverse puts last, leaves no such rotation:
\* the call fails.
CycleRingAtomKeyToFront(keys, key, end_key) ==
  IF key \notin Range(keys) THEN Raise("AssertionError", <<>>)
  ELSE LET fwd == Rotated(keys, key)
           bwd == Rotated(Reverse(keys), key)
       IN IF IsNone(end_key) THEN Ok(<<>>, fwd)
          ELSE IF fwd[Len(fwd)] = Get(end_key) THEN Ok(<<>>, fwd)
          ELSE IF bwd[Len(bwd)] = Get(end_key) THEN Ok(<<>>, bwd)
          ELSE Raise("AssertionError", <<>>)

\* automol.geom.insert_dummies_on_linear_atoms(ts_geo, lin_idxs, gra): one
\* dummy atom for every flagged atom, with keys beyond the geometry's; the
\* value is the augmented geometry (its atom keys) and dummy_key_dct
InsertDummiesOnLinearAtoms(geo, lin_idxs) ==
  LET parents == Range(lin_idxs) \cap geo
      dummy_key_dct ==
        [a \in parents |-> Max(geo) + Cardinality({b \in parents : b <= a})]
  IN [geo |-> geo \cup {dummy_key_dct[a] : a \in parents},
      dummy_key_dct |-> dummy_key_dct]

\* add_dummy_atoms(rxn, dummy_key_dct): a new Reaction whose graph has the
\* dummy atoms, each in the reactant of its parent
AddDummyAtoms(o, dummy_key_dct) ==
  [o EXCEPT
     !.atom_keys = @ \cup {dummy_key_dct[a] : a \in DOMAIN dummy_key_dct},
     !.reactants_keys =
        [i \in DOMAIN @ |->
           @[i] \cup {dummy_key_dct[a] : a \in (DOMAIN dummy_key_dct) \cap @[i]}]]

\* automol.graph.vmat.vmatrix(gra, keys, rng_keys), by its zma_keys: the
\* ring first, then the other atoms of the graph (of keys, when given)
Vmatrix(atom_keys, keys, rng_keys) ==
  LET cover == IF IsNone(keys) THEN atom_keys ELSE Get(keys) \cap atom_keys
      first == IF IsNone(rng_keys) THEN <<>> ELSE Get(rng_keys)
  IN first \o SortedKeys(cover \ Range(first))

\* automol.graph.vmat.continue_vmatrix(gra, keys, vma, zma_keys), by its
\* zma_keys: the keys given follow the ones already there
ContinueVmatrix(atom_keys, keys, zma_keys) ==
  zma_keys \o SortedKeys(keys \cap atom_keys)

\* hydrogen_abstraction_is_sigma
HydrogenAbstractionIsSigma(o, e) ==
  IF o.class_ # "HYDROGEN_ABSTRACTION" THEN Raise("AssertionError", <<>>)
  ELSE IF ~UnpacksBreakingBondKey(o.forward_ts_graph) THEN Raise("ValueError", <<>>)
  ELSE IF ~UnpacksFormingBondKey(o.forward_ts_graph) THEN Raise("ValueError", <<>>)
  ELSE LET rad == AttackingKeys(TheOne(FormingBondKeys(o.forward_ts_graph)),
                                TheOne(BreakingBondKeys(o.forward_ts_graph)))
       IN IF ~Unpacks1(rad) THEN Raise("ValueError", <<>>)
          ELSE Ok(<<>>, TheOne(rad) \in e.sig_rad_keys)

\* lin_idxs = list(automol.geom.linear_atoms(ts_geo))
LinearAtoms(e) == SortedKeys(e.lin)

\* sorted(lin_idxs)
SortedIdxs(lin_idxs) == Sorted(lin_idxs, [x \in Range(lin_idxs) |-> x])

\* step 1 of hydrogen_abstraction_ts_zmatrix: the transferring hydrogen
\* and, for a sigma radical, the attacking atom are flagged as well
HydrogenAbstractionLinIdxs(o, e) ==
  LET k == HydrogenAbstractionAtomKeys(o) IN
  IF k.err # "none" THEN k
  ELSE LET lin1 == Append(LinearAtoms(e), k.val[2])
           sigma == HydrogenAbstractionIsSigma(o, e)
       IN IF sigma.err # "none" THEN sigma
          ELSE IF sigma.val /\ k.val[1] \notin Range(lin1)
               THEN Ok(<<>>, SortedIdxs(Append(lin1, k.val[1])))
          ELSE Ok(<<>>, SortedIdxs(lin1))

\* step 1 of substitution_ts_zmatrix: the transferring atom is flagged
SubstitutionLinIdxs(o, e) ==
  LET k == SubstitutionAtomKeys(o) IN
  IF k.err # "none" THEN k
  ELSE Ok(<<>>, Append(LinearAtoms(e), k.val[2]))

\* step 1 of a builder
LinIdxs(fun_, o, e) ==
  CASE fun_ = "hydrogen_abstraction_ts_zmatrix" -> HydrogenAbstractionLinIdxs(o, e)
    [] fun_ = "substitution_ts_zmatrix" -> SubstitutionLinIdxs(o, e)
    [] OTHER -> Ok(<<>>, LinearAtoms(e))

\* rng_keys, = ts.forming_rings_atom_keys(rxn.forward_ts_graph)
UnpacksRngKeys(e) == Unpacks1(e.rings)

\* the ring cycled to begin at the attacking atom
HydrogenMigrationZmaKeysFromAttacking(o, e) ==
  IF ~UnpacksRngKeys(e) THEN Raise("ValueError", <<>>)
  ELSE
    LET k == HydrogenMigrationAtomKeys(o, e) IN
    IF k.err # "none" THEN k
    ELSE
      LET rng_keys == CycleRingAtomKeyToFront(TheOne(e.rings), k.val[1], Some(k.val[3]))
      IN IF rng_keys.err # "none" THEN rng_keys
         ELSE Ok(<<>>, Vmatrix(o.atom_keys, None, Some(rng_keys.val)))

\* step 4 of hydrogen_migration_ts_zmatrix
HydrogenMigrationZmaKeys(o, e) ==
  IF ~UnpacksRngKeys(e) THEN Raise("ValueError", <<>>)
  ELSE
    LET k == HydrogenMigrationAtomKeys(o, e) IN
    IF k.err # "none" THEN k
    ELSE
      LET rng_keys == CycleRingAtomKeyToFront(TheOne(e.rings), k.val[2], Some(k.val[3]))
      IN IF rng_keys.err # "none" THEN rng_keys
         ELSE Ok(<<>>, Vmatrix(o.atom_keys, None, Some(rng_keys.val)))

\* step 4 of beta_scission_ts_zmatrix
BetaScissionZmaKeys(o, e) == Ok(<<>>, Vmatrix(o.atom_keys, None, None))

\* step 4 of ring_forming_scission_ts_zmatrix: the ring keys are cycled
\* twice and then left out of the call to vmatrix
RingFormingScissionZmaKeys(o, e) ==
  IF ~UnpacksRngKeys(e) THEN Raise("ValueError", <<>>)
  ELSE
    LET k == RingFormingScissionAtomKeys(o) IN
    IF k.err # "none" THEN k
    ELSE
      LET rng1 == CycleRingAtomKeyToFront(TheOne(e.rings), k.val[2], Some(k.val[1]))
      IN IF rng1.err # "none" THEN rng1
         ELSE IF Len(rng1.val) < 2 THEN Raise("IndexError", <<>>)
         ELSE
           LET rng2 == CycleRingAtomKeyToFront(rng1.val, rng1.val[Len(rng1.val) - 1], None)
           IN IF rng2.err # "none" THEN rng2
              ELSE Ok(<<>>, Vmatrix(o.atom_keys, None, None))

\* sorted(ts.breaking_bond_keys(...), key=lambda x: len(x & frm_bnd_key))
SortBreakingByIntersection(brk_enum, frm_bnd_key) ==
  Sorted(brk_enum, [b \in Range(brk_enum) |-> IntersectionKey(b, frm_bnd_key)])

\* step 4 of elimination_ts_zmatrix
EliminationZmaKeys(o, e) ==
  LET tsg == o.forward_ts_graph IN
  IF ~UnpacksRngKeys(e) THEN Raise("ValueError", <<>>)
  ELSE IF ~UnpacksFormingBondKey(tsg) THEN Raise("ValueError", <<>>)
  ELSE IF BreakingBondKeys(tsg) = {} THEN Raise("IndexError", <<>>)
  ELSE
    LET frm_bnd_key == TheOne(FormingBondKeys(tsg))
        brk_bnd_key == SortBreakingByIntersection(e.brk_enum, frm_bnd_key)[1]
        near == IF brk_bnd_key \cap frm_bnd_key # {} THEN frm_bnd_key ELSE Range(e.path)
        key1 == brk_bnd_key \cap near
        key2 == brk_bnd_key \ near
    IN IF ~Unpacks1(key1) THEN Raise("ValueError", <<>>)
       ELSE IF ~Unpacks1(key2) THEN Raise("ValueError", <<>>)
       ELSE
         LET rng_keys == CycleRingAtomKeyToFront(TheOne(e.rings), TheOne(key1),
                                                 Some(TheOne(key2)))
         IN IF rng_keys.err # "none" THEN rng_keys
            ELSE Ok(<<>>, Vmatrix(o.atom_keys, None, Some(rng_keys.val)))

\* rct1_keys, rct2_keys = rxn.reactants_keys; vmatrix; continue_vmatrix
TwoReactantsZmaKeys(o) ==
  IF Len(o.reactants_keys) # 2 THEN Raise("ValueError", <<>>)
  ELSE Ok(<<>>, ContinueVmatrix(o.atom_keys, o.reactants_keys[2],
                                Vmatrix(o.atom_keys, Some(o.reactants_keys[1]), None)))

\* step 4 of hydrogen_abstraction_ts_zmatrix
HydrogenAbstractionZmaKeys(o, e) == TwoReactantsZmaKeys(o)

\* the second reactant left out
AdditionZmaKeysFirstReactant(o, e) ==
  IF Len(o.reactants_keys) # 2 THEN Raise("ValueError", <<>>)
  ELSE Ok(<<>>, Vmatrix(o.atom_keys, Some(o.reactants_keys[1]), None))

\* step 4 of addition_ts_zmatrix
AdditionZmaKeys(o, e) == TwoReactantsZmaKeys(o)

\* step 4 of insertion_ts_zmatrix: the else branch sets key2 only, and the
\* use of key1 that follows raises UnboundLocalError
InsertionZmaKeys(o, e) ==
  LET tsg == o.forward_ts_graph IN
  IF ~UnpacksRngKeys(e) THEN Raise("ValueError", <<>>)
  ELSE IF ~UnpacksBreakingBondKey(tsg) THEN Raise("ValueError", <<>>)
  ELSE
    LET brk_bnd_key == TheOne(BreakingBondKeys(tsg))
        k == InsertionFormingBondKeys(o, e)
    IN IF k.err # "none" THEN k
       ELSE IF Len(k.val) # 2 THEN Raise("ValueError", <<>>)
       ELSE
         LET frm_bnd_key == k.val[2] IN
         IF frm_bnd_key \cap brk_bnd_key # {}
         THEN
           LET key1 == frm_bnd_key \cap brk_bnd_key
               key2 == frm_bnd_key \ brk_bnd_key
           IN IF ~Unpacks1(key1) THEN Raise("ValueError", <<>>)
              ELSE IF ~Unpacks1(key2) THEN Raise("ValueError", <<>>)
              ELSE
                LET rng_keys == CycleRingAtomKeyToFront(TheOne(e.rings), TheOne(key1),
                                                        Some(TheOne(key2)))
                IN IF rng_keys.err # "none" THEN rng_keys
                   ELSE Ok(<<>>, Vmatrix(o.atom_keys, None, Some(rng_keys.val)))
         ELSE IF ~Unpacks1(frm_bnd_key \ Range(e.path)) THEN Raise("ValueError", <<>>)
         ELSE Raise("UnboundLocalError", <<>>)

\* step 4 of substitution_ts_zmatrix
SubstitutionZmaKeys(o, e) == TwoReactantsZmaKeys(o)

\* step 4 of a builder
ZmaKeys(fun_, o, e) ==
  CASE fun_ = "hydrogen_migration_ts_zmatrix" -> HydrogenMigrationZmaKeys(o, e)
    [] fun_ = "beta_scission_ts_zmatrix" -> BetaScissionZmaKeys(o, e)
    [] fun_ = "ring_forming_scission_ts_zmatrix" -> RingFormingScissionZmaKeys(o, e)
    [] fun_ = "elimination_ts_zmatrix" -> EliminationZmaKeys(o, e)
    [] fun_ = "hydrogen_abstraction_ts_zmatrix" -> HydrogenAbstractionZmaKeys(o, e)
    [] fun_ = "addition_ts_zmatrix" -> AdditionZmaKeys(o, e)
    [] fun_ = "insertion_ts_zmatrix" -> InsertionZmaKeys(o, e)
    [] fun_ = "substitution_ts_zmatrix" -> SubstitutionZmaKeys(o, e)

\* what a builder returns: (zma, zma_keys, dummy_key_dct), the z-matrix by
\* the atom keys of the geometry it is made from
BuilderValue(zma_keys, ins) ==
  [zma_keys |-> zma_keys, dummy_key_dct |-> ins.dummy_key_dct, geo |-> ins.geo]

\* the calls a builder makes up to vmatrix
BuilderSteps ==
  <<"copy", "linear_atoms", "insert_dummies_on_linear_atoms", "add_dummy_atoms",
    "vmatrix">>

\* the end of a builder: a failure of step 4 is raised, its keys go to
\* automol.zmat.from_geometry
BuilderReturn(zma_keys, ins) ==
  IF zma_keys.err # "none" THEN Raise(zma_keys.err, BuilderSteps)
  ELSE Ok(Append(BuilderSteps, "from_geometry"), BuilderValue(zma_keys.val, ins))

\* steps 3 and 4 of a builder, on the geometry with its dummy atoms
BuilderOnDummies(fun_, rxn0, e, ins) ==
  BuilderReturn(ZmaKeys(fun_, AddDummyAtoms(rxn0, ins.dummy_key_dct), e), ins)

\* steps 2 to 4 of a builder, on the linear atoms of step 1
BuilderOnLinIdxs(fun_, rxn0, e, lin_idxs) ==
  IF lin_idxs.err # "none" THEN Raise(lin_idxs.err, <<"copy", "linear_atoms">>)
  ELSE BuilderOnDummies(fun_, rxn0, e,
                        InsertDummiesOnLinearAtoms(rxn0.atom_keys, lin_idxs.val))

\* the four steps of a builder, on a Reaction object
TsZmatrixBuilder(fun_, o, e) ==
  BuilderOnLinIdxs(fun_, CopyOf(o), e, LinIdxs(fun_, CopyOf(o), e))

HydrogenMigrationTsZmatrix(r, e) ==
  TsZmatrixBuilder("hydrogen_migration_ts_zmatrix", ReactionObject(r, e), e)

BetaScissionTsZmatrix(r, e) ==
  TsZmatrixBuilder("beta_scission_ts_zmatrix", ReactionObject(r, e), e)

RingFormingScissionTsZmatrix(r, e) ==
  TsZmatrixBuilder("ring_forming_scission_ts_zmatrix", ReactionObject(r, e), e)

EliminationTsZmatrix(r, e) ==
  TsZmatrixBuilder("elimination_ts_zmatrix", ReactionObject(r, e), e)

HydrogenAbstractionTsZmatrix(r, e) ==
  TsZmatrixBuilder("hydrogen_abstraction_ts_zmatrix", ReactionObject(r, e), e)

AdditionTsZmatrix(r, e) ==
  TsZmatrixBuilder("addition_ts_zmatrix", ReactionObject(r, e), e)

InsertionTsZmatrix(r, e) ==
  TsZmatrixBuilder("insertion_ts_zmatrix", ReactionObject(r, e), e)

SubstitutionTsZmatrix(r, e) ==
  TsZmatrixBuilder("substitution_ts_zmatrix", ReactionObject(r, e), e)

\* function_dct of ts_zmatrix
TsZmatrixFunctionDct ==
     ("HYDROGEN_MIGRATION" :> "hydrogen_migration_ts_zmatrix")
  @@ ("BETA_SCISSION" :> "beta_scission_ts_zmatrix")
  @@ ("RING_FORM_SCISSION" :> "ring_forming_scission_ts_zmatrix")
  @@ ("ELIMINATION" :> "elimination_ts_zmatrix")
  @@ ("HYDROGEN_ABSTRACTION" :> "hydrogen_abstraction_ts_zmatrix")
  @@ ("ADDITION" :> "addition_ts_zmatrix")
  @@ ("INSERTION" :> "insertion_ts_zmatrix")
  @@ ("SUBSTITUTION" :> "substitution_ts_zmatrix")

\* fun_(rxn, ts_geo)
ApplyTsZmatrixBuilder(fun_, r, e) ==
  CASE fun_ = "hydrogen_migration_ts_zmatrix" -> HydrogenMigrationTsZmatrix(r, e)
    [] fun_ = "beta_scission_ts_zmatrix" -> BetaScissionTsZmatrix(r, e)
    [] fun_ = "ring_forming_scission_ts_zmatrix" -> RingFormingScissionTsZmatrix(r, e)
    [] fun_ = "elimination_ts_zmatrix" -> EliminationTsZmatrix(r, e)
    [] fun_ = "hydrogen_abstraction_ts_zmatrix" -> HydrogenAbstractionTsZmatrix(r, e)
    [] fun_ = "addition_ts_zmatrix" -> AdditionTsZmatrix(r, e)
    [] fun_ = "insertion_ts_zmatrix" -> InsertionTsZmatrix(r, e)
    [] fun_ = "substitution_ts_zmatrix" -> SubstitutionTsZmatrix(r, e)

\* the result of a builder, with the builder first among the calls made
CalledThrough(fun_, res) == [res EXCEPT !.calls = <<fun_>> \o res.calls]

\* ts_zmatrix: the table lookup, then the builder
TsZmatrix(r, e) ==
  IF r.class_ \notin DOMAIN TsZmatrixFunctionDct THEN Raise("KeyError", <<>>)
  ELSE CalledThrough(TsZmatrixFunctionDct[r.class_],
                     ApplyTsZmatrixBuilder(TsZmatrixFunctionDct[r.class_], r, e))

(***************************************************************************)
(* The inputs of a call.                                                   *)
(***************************************************************************)
\* c hundredths of an Angstrom, in the working unit
Ang(c) == Mul(D(c), ANG2BOHR)

\* reference lengths bnd.LEN_DCT may hold: 1.1 A, 1.5 A, 1.9 A, 2.3 A, ...
LenValues == {Ang(110 + 40 * i) : i \in 0..MaxLenIdx}

BndLens == {None} \cup {Some(v) : v \in LenValues}

\* the two outcomes of the bond-length lookup: unresolved, or the shortest
\* reference length
FewBndLens == {None, Some(Ang(110))}

\* lengths at and around the 2.0 A at which hydrogen_migration_grid
\* branches: 2.0 A, the next length above it, 2.15 A and 2.45 A
MigrationLens == {Some(Ang(200)), Some(Ang(200) + 1), Some(Ang(215)), Some(Ang(245))}

\* the lengths scan_grid is called with
GridLens(r) ==
  IF r.class_ = "HYDROGEN_MIGRATION" THEN BndLens \cup MigrationLens ELSE BndLens

\* atom_neighbor_atom_key answers with a neighbour of the attacking atom
\* other than the migrating hydrogen
NgbKeys(r) ==
  LET k == AtomKeys(r) IN
  IF r.class_ = "HYDROGEN_MIGRATION" /\ k.err = "none"
  THEN Atoms \ {k.val[1], k.val[2]}
  ELSE {0}

\* shortest_path_between_atoms answers with a simple path from the
\* donating to the attacking atom
Chains(r) ==
  LET k == AtomKeys(r) IN
  IF r.class_ = "RING_FORM_SCISSION" /\ k.err = "none"
  THEN {<<k.val[3]>> \o mid \o <<k.val[1]>> :
          mid \in UNION {Enumerations(S) :
                           S \in SUBSET (Atoms \ {k.val[1], k.val[3]})}}
  ELSE {<<>>}

FrmEnums(r) ==
  IF r.class_ = "INSERTION" THEN Enumerations(FormingBondKeys(r.forward_ts_graph))
  ELSE {<<>>}

\* the enumeration of the breaking bonds elimination_ts_zmatrix sorts
BrkEnums(r) ==
  IF r.class_ = "ELIMINATION" THEN Enumerations(BreakingBondKeys(r.forward_ts_graph))
  ELSE {<<>>}

\* the reactants_keys of a Reaction of two reactants, and of one
ReactantsKeys(r) ==
  IF r.class_ \in {"HYDROGEN_ABSTRACTION", "ADDITION", "INSERTION", "SUBSTITUTION"}
  THEN <<{1}, Atoms \ {1}>>
  ELSE <<Atoms>>

\* what the geometry and graph collaborators of _zmat.py answer for a TS
\* without linear atoms, whose forming ring goes through all atoms in the
\* order of their keys
PlainGeometry(r) ==
  [lin |-> {}, rings |-> {SortedKeys(Atoms)}, sig_rad_keys |-> {},
   path |-> SortedKeys(Atoms), reactants_keys |-> ReactantsKeys(r)]

\* a record with the fields of both
Both(e1, e2) == e1 @@ e2

\* the bond of the scan coordinate of a reaction, whose reference length
\* is drawn with the call
LenKey(r, frm_enum) ==
  IF r.class_ \notin DOMAIN ScanCoordinateFunctionDct THEN {}
  ELSE LET sc == ApplyCoordinateFunction(ScanCoordinateFunctionDct[r.class_], r,
                                         [frm_enum |-> frm_enum])
       IN IF sc.err = "none" THEN sc.val.keys ELSE {}

Envs(r, lens) ==
  {Both([bnd_len |-> l, ngb_key |-> n, chain |-> c, frm_enum |-> f, brk_enum |-> b,
         len_key |-> LenKey(r, f)],
        PlainGeometry(r)) :
     l \in lens, n \in NgbKeys(r), c \in Chains(r), f \in FrmEnums(r),
     b \in BrkEnums(r)}

ReactionsOf(c) == {[class_ |-> c, forward_ts_graph |-> g] : g \in TSGraphs}

\* the reactions on which scan_coordinate and constraint_coordinates return:
\* the ones build_scan_info hands to scan_grid
ScannableReactions ==
  {r \in Reactions :
     \A e \in Envs(r, {None}) :
       ScanCoordinate(r, e).err = "none" /\ ConstraintCoordinates(r, e).err = "none"}

\* TS graphs of the shapes the builders of _zmat.py are written for: one
\* forming and one breaking bond that share an atom; one breaking bond; one
\* forming bond; one forming and two breaking bonds, both or one of which
\* meet it; two forming bonds, both or one of which meet the breaking bond;
\* the first shape on other atoms; and two forming bonds neither of which
\* meets the breaking bond
ZmatGraphs ==
  {[frm |-> {{1, 2}}, brk |-> {{2, 3}}],
   [frm |-> {}, brk |-> {{1, 2}}],
   [frm |-> {{1, 2}}, brk |-> {}],
   [frm |-> {{1, 2}}, brk |-> {{2, 3}, {1, 4}}],
   [frm |-> {{1, 2}}, brk |-> {{2, 3}, {4, 5}}],
   [frm |-> {{1, 2}, {3, 4}}, brk |-> {{2, 3}}],
   [frm |-> {{1, 2}, {4, 5}}, brk |-> {{2, 3}}],
   [frm |-> {{4, 5}}, brk |-> {{3, 4}}],
   [frm |-> {{1, 2}, {1, 3}}, brk |-> {{4, 5}}]}

ZmatReactions == {[class_ |-> c, forward_ts_graph |-> g] : c \in Classes, g \in ZmatGraphs}

\* linear_atoms answers with no atom, one atom, or two
LinChoices == {{}, {1, 2}} \cup {{a} : a \in Atoms}

\* forming_rings_atom_keys answers with one ring through all atoms, in
\* either direction, with one small ring, with no ring, with two, or with
\* the ring of four atoms an elimination closes
RingChoices ==
  {{SortedKeys(Atoms)}, {Reverse(SortedKeys(Atoms))}, {<<1, 2, 3>>}, {},
   {<<1, 2, 3>>, <<1, 2, 4, 5>>}, {<<3, 2, 1, 4>>}}

\* the bonds between neighbours of a ring
RingBonds(rng_keys) ==
  {{rng_keys[i], rng_keys[(i % Len(rng_keys)) + 1]} : i \in DOMAIN rng_keys}

\* the answers that are forming rings of the TS graph: every ring goes
\* through a forming bond
FormingRingChoices(r) ==
  {g \in RingChoices :
     \A rng_keys \in g : RingBonds(rng_keys) \cap FormingBondKeys(r.forward_ts_graph) # {}}

SigRadChoices(r) == IF r.class_ = "HYDROGEN_ABSTRACTION" THEN {{}, Atoms} ELSE {{}}

PathChoices(r) ==
  IF r.class_ \in {"ELIMINATION", "INSERTION"}
  THEN {<<4, 1>>, <<5, 3, 2>>, SortedKeys(Atoms)}
  ELSE {<<>>}

\* the reactants_keys of a Reaction: a partition of its atoms into two
\* reactants, or its atoms
ReactantsKeysChoices(r) ==
  IF r.class_ \in {"HYDROGEN_ABSTRACTION", "ADDITION", "INSERTION", "SUBSTITUTION"}
  THEN {<<{1}, Atoms \ {1}>>, <<Atoms \ {1, 2}, {1, 2}>>}
  ELSE {<<Atoms>>}

\* the answers of the collaborators of _zmat.py
ZmatEnvs(r) ==
  {[bnd_len |-> None, len_key |-> {}, ngb_key |-> 0, chain |-> <<>>, frm_enum |-> f,
    brk_enum |-> b,
    lin |-> l, rings |-> g, sig_rad_keys |-> s, path |-> p, reactants_keys |-> k] :
     f \in FrmEnums(r), b \in BrkEnums(r), l \in LinChoices, g \in FormingRingChoices(r),
     s \in SigRadChoices(r), p \in PathChoices(r), k \in ReactantsKeysChoices(r)}

\* the cycles of three atoms or more
Cycles == UNION {Enumerations(S) : S \in {T \in SUBSET Atoms : Cardinality(T) >= 3}}

NoRxn == [class_ |-> "", forward_ts_graph |-> [frm |-> {}, brk |-> {}]]

NoEnv ==
  [bnd_len |-> None, len_key |-> {}, ngb_key |-> 0, chain |-> <<>>, frm_enum |-> <<>>,
   brk_enum |-> <<>>, lin |-> {}, rings |-> {}, sig_rad_keys |-> {},
   path |-> <<>>, reactants_keys |-> <<>>]

NoRet == [err |-> "none", calls |-> <<>>, val |-> <<>>]

(***************************************************************************)
(* Reaction objects.  The Reactions the callers of ts_zmatrix hold are the *)
(* objects "x" and "y" of the heap; a call, "a" or "b", keeps the objects  *)
(* it makes under names of its own.  A frame is the position of a call in  *)
(* its builder and the values of the builder's local names.                *)
(***************************************************************************)
Callers == {"a", "b"}

SharedIds == {"x", "y"}

\* where a call keeps the result of rxn.copy()
CopyId == ("a" :> "a.copy") @@ ("b" :> "b.copy")

\* where a call keeps the result of add_dummy_atoms
DummiesId == ("a" :> "a.dummies") @@ ("b" :> "b.dummies")

Ids == SharedIds \cup {CopyId[p] : p \in Callers} \cup {DummiesId[p] : p \in Callers}

NoObj ==
  [class_ |-> "", forward_ts_graph |-> [frm |-> {}, brk |-> {}],
   atom_keys |-> {}, reactants_keys |-> <<>>]

NoIns == [geo |-> {}, dummy_key_dct |-> <<>>]

NoFrame ==
  [pc |-> "idle", arg |-> "", fun_ |-> "", rxn |-> "", lin_idxs |-> <<>>,
   ins |-> NoIns, ret |-> NoRet]

NoGiven == [i \in SharedIds |-> [rxn |-> NoRxn, env |-> NoEnv]]

\* the Reactions and TS geometries the two callers are given: one Reaction
\* of each class tag on the first graph, without a linear atom, or with the
\* transferring atom or the last atom linear
SharedInputs ==
  {<<r, e>> : r \in {[class_ |-> c, forward_ts_graph |-> [frm |-> {{1, 2}}, brk |-> {{2, 3}}]] :
                       c \in Tags},
              e \in {[bnd_len |-> None, len_key |-> {}, ngb_key |-> 0, chain |-> <<>>,
                      frm_enum |-> <<{1, 2}>>, brk_enum |-> <<{2, 3}>>, lin |-> l,
                      rings |-> {SortedKeys(Atoms)},
                      sig_rad_keys |-> {}, path |-> <<>>,
                      reactants_keys |-> <<{1}, Atoms \ {1}>>] : l \in {{}, {2}, {NAtoms}}}}

\* rxn = rxn.copy()
CopyReaction(h, arg, new) == [h EXCEPT ![new] = CopyOf(h[arg])]

\* rxn.forward_ts_graph = rxn.forward_ts_graph
RebindForwardTsGraph(h, id) ==
  [h EXCEPT ![id].forward_ts_graph = h[id].forward_ts_graph]

\* the builders that rebind forward_ts_graph after the copy
Rebinds(fun_) ==
  fun_ \in {"addition_ts_zmatrix", "insertion_ts_zmatrix", "substitution_ts_zmatrix"}

\* the dummy atoms written into the Reaction the caller holds
AddDummyAtomsInPlace(h, f, new) ==
  [heap |-> [h EXCEPT ![f.arg] = AddDummyAtoms(h[f.rxn], f.ins.dummy_key_dct)],
   rxn |-> f.arg]

\* step 3 left out: the local name stays bound to the copy
AddDummyAtomsSkipped(h, f, new) == [heap |-> h, rxn |-> f.rxn]

\* rxn = add_dummy_atoms(rxn, dummy_key_dct): the local name is bound to
\* the new Reaction
AddDummyAtomsToReaction(h, f, new) ==
  [heap |-> [h EXCEPT ![new] = AddDummyAtoms(h[f.rxn], f.ins.dummy_key_dct)],
   rxn |-> new]

(***************************************************************************)
(* The state machine: a call draws its arguments and the collaborators'    *)
(* answers, runs to its return or its exception, and is left at "done"     *)
(* with the outcome in ret.                                                *)
(***************************************************************************)
Init ==
  /\ pc = "idle"
  /\ op = ""
  /\ rxn = NoRxn
  /\ env = NoEnv
  /\ ret = NoRet
  /\ heap = [i \in Ids |-> NoObj]
  /\ frames = [p \in Callers |-> NoFrame]
  /\ given = NoGiven

Done(name, r, e, res) ==
  /\ pc' = "done"
  /\ op' = name
  /\ rxn' = r
  /\ env' = e
  /\ ret' = res
  /\ UNCHANGED <<heap, frames, given>>

CallBuildScanInfo ==
  /\ pc = "idle"
  /\ \E r \in Reactions : \E e \in Envs(r, FewBndLens) :
       Done("build_scan_info", r, e, BuildScanInfo(r, e))

CallTsZmatrix ==
  /\ pc = "idle"
  /\ \E r \in Reactions : \E e \in Envs(r, {None}) :
       Done("ts_zmatrix", r, e, TsZmatrix(r, e))

\* ts_zmatrix on the TS graphs its builders are written for, over the
\* answers of the geometry and graph collaborators
CallTsZmatrixOnGeometry ==
  /\ pc = "idle"
  /\ \E r \in ZmatReactions : \E e \in ZmatEnvs(r) :
       Done("ts_zmatrix", r, e, TsZmatrix(r, e))

CallCycleRingAtomKeyToFront ==
  /\ pc = "idle"
  /\ \E keys \in Cycles : \E key \in Atoms : \E end_key \in {None} \cup {Some(a) : a \in Atoms} :
       Done("cycle_ring_atom_key_to_front", NoRxn,
            Both([keys |-> keys, key |-> key, end_key |-> end_key], NoEnv),
            CycleRingAtomKeyToFront(keys, key, end_key))

CallHydrogenMigrationAtomKeys ==
  /\ pc = "idle"
  /\ \E r \in ReactionsOf("HYDROGEN_MIGRATION") : \E e \in Envs(r, {None}) :
       Done("hydrogen_migration_atom_keys", r, e, HydrogenMigrationAtomKeys(r, e))

CallRingFormingScissionAtomKeys ==
  /\ pc = "idle"
  /\ \E r \in ReactionsOf("RING_FORM_SCISSION") :
       Done("ring_forming_scission_atom_keys", r, NoEnv, RingFormingScissionAtomKeys(r))

CallHydrogenAbstractionAtomKeys ==
  /\ pc = "idle"
  /\ \E r \in ReactionsOf("HYDROGEN_ABSTRACTION") :
       Done("hydrogen_abstraction_atom_keys", r, NoEnv, HydrogenAbstractionAtomKeys(r))

CallSubstitutionAtomKeys ==
  /\ pc = "idle"
  /\ \E r \in ReactionsOf("SUBSTITUTION") :
       Done("substitution_atom_keys", r, NoEnv, SubstitutionAtomKeys(r))

CallInsertionFormingBondKeys ==
  /\ pc = "idle"
  /\ \E r \in ReactionsOf("INSERTION") \cup ReactionsOf("ADDITION") :
       \E e \in Envs(r, {None}) :
         Done("insertion_forming_bond_keys", r, e, InsertionFormingBondKeys(r, e))

CallInsertionScanCoordinate ==
  /\ pc = "idle"
  /\ \E r \in ReactionsOf("INSERTION") : \E e \in Envs(r, {None}) :
       Done("insertion_scan_coordinate", r, e, InsertionScanCoordinate(r, e))

CallScanGrid ==
  /\ pc = "idle"
  /\ \E r \in ScannableReactions : \E e \in Envs(r, GridLens(r)) :
       Done("scan_grid", r, e, ScanGrid(r, e))

Return ==
  /\ pc = "done"
  /\ pc' = "idle"
  /\ op' = ""
  /\ rxn' = NoRxn
  /\ env' = NoEnv
  /\ ret' = NoRet
  /\ UNCHANGED <<heap, frames, given>>

(***************************************************************************)
(* ts_zmatrix step by step, for two calls that run side by side on the     *)
(* Reactions "x" and "y".                                                  *)
(***************************************************************************)
\* the two Reactions, and the TS geometry of each, come from upstream
GiveReactions ==
  /\ heap["x"] = NoObj
  /\ \E ix \in SharedInputs : \E iy \in SharedInputs :
       /\ heap' = [heap EXCEPT !["x"] = ReactionObject(ix[1], ix[2]),
                               !["y"] = ReactionObject(iy[1], iy[2])]
       /\ given' = ("x" :> [rxn |-> ix[1], env |-> ix[2]])
                     @@ ("y" :> [rxn |-> iy[1], env |-> iy[2]])
  /\ UNCHANGED <<pc, op, rxn, env, ret, frames>>

\* ts_zmatrix(rxn, ts_geo) is called: the table lookup
StartTsZmatrix(p) ==
  /\ heap["x"] # NoObj
  /\ frames[p].pc = "idle"
  /\ \E id \in SharedIds :
       frames' = [frames EXCEPT ![p] =
         IF heap[id].class_ \notin DOMAIN TsZmatrixFunctionDct
         THEN [NoFrame EXCEPT !.pc = "done", !.arg = id, !.ret = Raise("KeyError", <<>>)]
         ELSE [NoFrame EXCEPT !.pc = "copy", !.arg = id,
                              !.fun_ = TsZmatrixFunctionDct[heap[id].class_]]]
  /\ UNCHANGED <<pc, op, rxn, env, ret, heap, given>>

\* rxn = rxn.copy(), and the rebinding that follows it in three builders
StepCopy(p) ==
  LET f == frames[p]
      h == CopyReaction(heap, f.arg, CopyId[p])
  IN /\ f.pc = "copy"
     /\ heap' = IF Rebinds(f.fun_) THEN RebindForwardTsGraph(h, CopyId[p]) ELSE h
     /\ frames' = [frames EXCEPT ![p].pc = "linear_atoms", ![p].rxn = CopyId[p]]
     /\ UNCHANGED <<pc, op, rxn, env, ret, given>>

\* step 1: the linear atoms and the atoms the class adds to them
StepLinearAtoms(p) ==
  LET f == frames[p]
      lin_idxs == LinIdxs(f.fun_, heap[f.rxn], given[f.arg].env)
  IN /\ f.pc = "linear_atoms"
     /\ frames' = [frames EXCEPT ![p] =
          IF lin_idxs.err # "none"
          THEN [f EXCEPT !.pc = "done", !.ret = Raise(lin_idxs.err, <<>>)]
          ELSE [f EXCEPT !.pc = "insert_dummies", !.lin_idxs = lin_idxs.val]]
     /\ UNCHANGED <<pc, op, rxn, env, ret, heap, given>>

\* step 2: dummy atoms over the linear atoms of the geometry
StepInsertDummies(p) ==
  LET f == frames[p]
  IN /\ f.pc = "insert_dummies"
     /\ frames' = [frames EXCEPT
          ![p].pc = "add_dummy_atoms",
          ![p].ins = InsertDummiesOnLinearAtoms(heap[f.rxn].atom_keys, f.lin_idxs)]
     /\ UNCHANGED <<pc, op, rxn, env, ret, heap, given>>

\* step 3: the dummy atoms added to the Reaction
StepAddDummyAtoms(p) ==
  LET f == frames[p]
      res == AddDummyAtomsToReaction(heap, f, DummiesId[p])
  IN /\ f.pc = "add_dummy_atoms"
     /\ heap' = res.heap
     /\ frames' = [frames EXCEPT ![p].pc = "vmatrix", ![p].rxn = res.rxn]
     /\ UNCHANGED <<pc, op, rxn, env, ret, given>>

\* step 4: the z-matrix of the geometry
StepVmatrix(p) ==
  LET f == frames[p]
      zma_keys == ZmaKeys(f.fun_, heap[f.rxn], given[f.arg].env)
  IN /\ f.pc = "vmatrix"
     /\ frames' = [frames EXCEPT ![p] =
          IF zma_keys.err # "none"
          THEN [f EXCEPT !.pc = "done", !.ret = Raise(zma_keys.err, <<>>)]
          ELSE [f EXCEPT !.pc = "done",
                         !.ret = Ok(<<>>, BuilderValue(zma_keys.val, f.ins))]]
     /\ UNCHANGED <<pc, op, rxn, env, ret, heap, given>>

\* the call ends: its local names and the objects only they name are gone
EndTsZmatrix(p) ==
  /\ frames[p].pc = "done"
  /\ frames' = [frames EXCEPT ![p] = NoFrame]
  /\ heap' = [heap EXCEPT ![CopyId[p]] = NoObj, ![DummiesId[p]] = NoObj]
  /\ UNCHANGED <<pc, op, rxn, env, ret, given>>

\* the bond-key algebra of _util.py and the insertion scan coordinate
Next ==
  \/ CallHydrogenMigrationAtomKeys
  \/ CallRingFormingScissionAtomKeys
  \/ CallHydrogenAbstractionAtomKeys
  \/ CallSubstitutionAtomKeys
  \/ CallInsertionFormingBondKeys
  \/ CallInsertionScanCoordinate
  \/ Return

Spec == Init /\ [][Next]_vars

\* the two exposed operations, over every class tag
DispatchNext ==
  \/ CallBuildScanInfo
  \/ CallTsZmatrix
  \/ Return

DispatchSpec == Init /\ [][DispatchNext]_vars

\* the grid builders, over every reference length
GridNext ==
  \/ CallScanGrid
  \/ Return

GridSpec == Init /\ [][GridNext]_vars

\* the z-matrix builders over the collaborators' answers, and the ring
\* order they rely on
ZmatNext ==
  \/ CallTsZmatrixOnGeometry
  \/ CallCycleRingAtomKeyToFront
  \/ Return

ZmatSpec == Init /\ [][ZmatNext]_vars

\* two calls of ts_zmatrix, step by step
FrameNext ==
  \/ GiveReactions
  \/ \E p \in Callers : StartTsZmatrix(p)
  \/ \E p \in Callers : StepCopy(p)
  \/ \E p \in Callers : StepLinearAtoms(p)
  \/ \E p \in Callers : StepInsertDummies(p)
  \/ \E p \in Callers : StepAddDummyAtoms(p)
  \/ \E p \in Callers : StepVmatrix(p)
  \/ \E p \in Callers : EndTsZmatrix(p)

FrameSpec == Init /\ [][FrameNext]_vars

(***************************************************************************)
(* Properties.                                                             *)
(***************************************************************************)
Tsg == rxn.forward_ts_graph

Returned(name) == pc = "done" /\ op = name

ReturnedOneOf(names) == pc = "done" /\ op \in names

\* two fixed-point numbers that differ by the last digit at most
Near(x, y) == x - y \in -1..1

EquallySpaced(g) ==
  \A i, j \in 1..(Len(g) - 1) : Near(g[i + 1] - g[i], g[j + 1] - g[j])

StrictlyIncreasing(g) == \A i \in 1..(Len(g) - 1) : g[i] < g[i + 1]

\* C1: build_scan_info and ts_zmatrix, called with a class tag outside the
\* 8 supported ones, fail at the dispatch-table lookup (Python's KeyError,
\* which the specification names UnsupportedReactionClass) before any
\* scan-coordinate, constraint, grid or z-matrix computation is entered.
C1_UnsupportedClassFailsFirst ==
  (ReturnedOneOf({"build_scan_info", "ts_zmatrix"}) /\ rxn.class_ \notin Classes)
    => (ret.err = "KeyError" /\ ret.calls = <<>> /\ ret.val = <<>>)

C1_Witness ==
  /\ Returned("build_scan_info")
  /\ rxn.class_ = "PHOTOLYSIS"
  /\ ret.err = "KeyError"

\* C2: each of the five per-class tables has an entry for every one of the
\* 8 class tags, so for a supported tag no table lookup of build_scan_info
\* or ts_zmatrix fails.
C2_DispatchTotal ==
  /\ DOMAIN ScanCoordinateFunctionDct = Classes
  /\ DOMAIN ConstraintCoordinatesFunctionDct = Classes
  /\ DOMAIN TightTsGridBuilderDct = Classes
  /\ DOMAIN UPDATE_GUESS_DCT = Classes
  /\ DOMAIN TsZmatrixFunctionDct = Classes
  /\ (ReturnedOneOf({"build_scan_info", "ts_zmatrix"}) /\ rxn.class_ \in Classes)
       => ret.err # "KeyError"

C2_Witness ==
  /\ Returned("build_scan_info")
  /\ rxn.class_ = "INSERTION"
  /\ ret.err = "none"
  /\ Len(ret.calls) = 4

\* the 1-D sequences among the grids build_scan_info returns: the grid of
\* an elimination is a pair of sequences
NumGridSequences(c, grids) == IF c = "ELIMINATION" THEN Len(grids[1]) ELSE Len(grids)

\* C3: the bundle build_scan_info returns has one grid sequence per scan
\* coordinate name: two names and two sequences for elimination, one
\* name and one sequence for each other class.
C3_OneGridPerScanName ==
  (Returned("build_scan_info") /\ ret.err = "none")
    => /\ Len(ret.val.scan_names) = NumGridSequences(rxn.class_, ret.val.grids)
       /\ Len(ret.val.scan_names) = IF rxn.class_ = "ELIMINATION" THEN 2 ELSE 1

\* C4: for forming and breaking bond keys that share exactly one atom,
\* hydrogen_migration_atom_keys returns pairwise distinct attacking,
\* transferring and donating atoms, the attacking atom outside the
\* breaking bond and the donating atom outside the forming bond.
C4_MigrationRolesPartition ==
  (/\ Returned("hydrogen_migration_atom_keys")
   /\ Cardinality(Tsg.frm) = 1
   /\ Cardinality(Tsg.brk) = 1
   /\ Cardinality((UNION Tsg.frm) \cap (UNION Tsg.brk)) = 1)
    => /\ ret.err = "none"
       /\ ret.val[1] # ret.val[2]
       /\ ret.val[2] # ret.val[3]
       /\ ret.val[1] # ret.val[3]
       /\ ret.val[1] \in (UNION Tsg.frm) \ (UNION Tsg.brk)
       /\ ret.val[2] \in (UNION Tsg.frm) \cap (UNION Tsg.brk)
       /\ ret.val[3] \in (UNION Tsg.brk) \ (UNION Tsg.frm)

C4_Witness ==
  /\ Returned("hydrogen_migration_atom_keys")
  /\ ret.err = "none"
  /\ Tsg.frm = {{1, 2}}
  /\ Tsg.brk = {{2, 3}}

\* C5: the atom-role derivation of migration, ring-forming scission,
\* abstraction and substitution fails with the unpacking error (ValueError,
\* which the specification names MalformedReactionGraph) on a TS graph that
\* does not have exactly one forming and exactly one breaking bond key, and
\* returns no roles.
C5_MalformedGraphRaises ==
  (/\ ReturnedOneOf({"hydrogen_migration_atom_keys", "ring_forming_scission_atom_keys",
                     "hydrogen_abstraction_atom_keys", "substitution_atom_keys"})
   /\ ~(Cardinality(Tsg.frm) = 1 /\ Cardinality(Tsg.brk) = 1))
    => (ret.err = "ValueError" /\ ret.val = <<>>)

C5_Witness ==
  /\ Returned("substitution_atom_keys")
  /\ Cardinality(Tsg.frm) = 1
  /\ Cardinality(Tsg.brk) = 2
  /\ ret.err = "ValueError"

ExactlyOneIntersects(frm, brk_bnd_key) ==
  Cardinality({b \in frm : b \cap brk_bnd_key # {}}) = 1

\* C6: when exactly one of the two forming bonds intersects the breaking
\* bond, insertion_forming_bond_keys returns the other one first (breaking
\* {2,3}, forming {{1,2},{4,5}}: {4,5} first), and insertion_scan_coordinate
\* names the distance of the first bond.
C6_InsertionPrimaryBond ==
  /\ (/\ Returned("insertion_forming_bond_keys")
      /\ ret.err = "none"
      /\ Cardinality(Tsg.frm) = 2
      /\ ExactlyOneIntersects(Tsg.frm, UNION Tsg.brk))
       => /\ Len(ret.val) = 2
          /\ {ret.val[1], ret.val[2]} = Tsg.frm
          /\ ret.val[1] \cap (UNION Tsg.brk) = {}
          /\ (Tsg.frm = {{1, 2}, {4, 5}} /\ Tsg.brk = {{2, 3}}) => ret.val[1] = {4, 5}
  /\ (Returned("insertion_scan_coordinate") /\ ret.err = "none")
       => /\ ret.val.coo = "distance"
          /\ ret.val.keys \in Tsg.frm
          /\ ret.val.keys = InsertionFormingBondKeys(rxn, env).val[1]
          /\ ExactlyOneIntersects(Tsg.frm, UNION Tsg.brk)
               => ret.val.keys \cap (UNION Tsg.brk) = {}

C6_Witness ==
  /\ Returned("insertion_forming_bond_keys")
  /\ Tsg.frm = {{1, 2}, {4, 5}}
  /\ Tsg.brk = {{2, 3}}
  /\ ret.err = "none"
  /\ ret.val = <<{4, 5}, {1, 2}>>

MigrationAt23 ==
  /\ Returned("scan_grid")
  /\ rxn.class_ = "HYDROGEN_MIGRATION"
  /\ env.bnd_len = Some(Ang(230))

BetaScissionUnresolved ==
  /\ Returned("scan_grid")
  /\ rxn.class_ = "BETA_SCISSION"
  /\ IsNone(env.bnd_len)

\* C8, as it holds: for a beta scission whose bond length cannot be
\* resolved, beta_scission_grid returns 14 equally spaced points from
\* 1.4 A to 2.0 A.
C8_BetaScissionDefaultGrid ==
  BetaScissionUnresolved
    => /\ ret.err = "none"
       /\ Len(ret.val) = 14
       /\ ret.val[1] = Ang(140)
       /\ ret.val[14] = Ang(200)
       /\ StrictlyIncreasing(ret.val)
       /\ EquallySpaced(ret.val)

\* C8, as claimed: the 14 points run from 1.5 A to 2.2 A.
C8_Claimed ==
  BetaScissionUnresolved
    => /\ ret.err = "none"
       /\ Len(ret.val) = 14
       /\ Near(ret.val[1], Ang(150))
       /\ Near(ret.val[14], Ang(220))
       /\ EquallySpaced(ret.val)

C8_Witness == BetaScissionUnresolved /\ ret.err = "none" /\ Len(ret.val) = 14

\* the point count and the two offsets (hundredths of an Angstrom) the
\* claim C9 documents for a class
DocumentedGrid ==
     ("BETA_SCISSION" :> <<14, 10, 80>>)
  @@ ("RING_FORM_SCISSION" :> <<7, 10, 70>>)
  @@ ("HYDROGEN_ABSTRACTION" :> <<8, 10, 100>>)
  @@ ("INSERTION" :> <<16, 0, 140>>)
  @@ ("SUBSTITUTION" :> <<14, 0, 140>>)

\* C9: with a resolved bond length b, the grids of beta scission,
\* ring-forming scission, hydrogen abstraction, insertion and substitution
\* have exactly the documented point count, start at b plus the documented
\* lower offset, end at b plus the documented upper offset, are equally
\* spaced and strictly increasing.
C9_EqualSpacingGrids ==
  (/\ Returned("scan_grid")
   /\ rxn.class_ \in DOMAIN DocumentedGrid
   /\ ~IsNone(env.bnd_len))
    => LET doc == DocumentedGrid[rxn.class_]
           b == Get(env.bnd_len)
       IN /\ ret.err = "none"
          /\ Len(ret.val) = doc[1]
          /\ ret.val[1] = b + Ang(doc[2])
          /\ ret.val[doc[1]] = b + Ang(doc[3])
          /\ StrictlyIncreasing(ret.val)
          /\ EquallySpaced(ret.val)

C9_Witness ==
  /\ Returned("scan_grid")
  /\ rxn.class_ = "RING_FORM_SCISSION"
  /\ env.bnd_len = Some(Ang(150))
  /\ ret.err = "none"
  /\ Len(ret.val) = 7

\* C10: the grid of addition_grid starts at rmin (bond + 0.1 A, or 1.6 A
\* when the bond is unresolved), its consecutive differences never
\* decrease, and none of its values is greater than rmax (bond + 1.2 A, or
\* 2.8 A when the bond is unresolved).
C10_AdditionGridSteps ==
  (Returned("scan_grid") /\ rxn.class_ = "ADDITION")
    => LET g == ret.val
           rmin == IF IsNone(env.bnd_len) THEN Ang(160) ELSE Get(env.bnd_len) + Ang(10)
           rmax == IF IsNone(env.bnd_len) THEN Ang(280) ELSE Get(env.bnd_len) + Ang(120)
       IN /\ ret.err = "none"
          /\ g[1] = rmin
          /\ \A i \in 1..(Len(g) - 2) : g[i + 1] - g[i] <= g[i + 2] - g[i + 1]
          /\ \A i \in 1..Len(g) : g[i] <= rmax

C10_Witness ==
  /\ Returned("scan_grid")
  /\ rxn.class_ = "ADDITION"
  /\ IsNone(env.bnd_len)
  /\ ret.err = "none"
  /\ Len(ret.val) > 3

\* the default range (hundredths of an Angstrom) the claim C11 documents
\* for a class
DocumentedDefaultRange ==
     ("RING_FORM_SCISSION" :> <<164, 224>>)
  @@ ("HYDROGEN_ABSTRACTION" :> <<70, 220>>)
  @@ ("ADDITION" :> <<160, 280>>)
  @@ ("INSERTION" :> <<140, 240>>)
  @@ ("SUBSTITUTION" :> <<70, 240>>)

\* C11: for every one of the 8 classes, when the reference bond length of
\* the scan coordinate is unknown the grid builder does not fail, and the
\* grid it returns starts at the lower end of the class's default range.
C11_UnresolvedUsesDefault ==
  (Returned("scan_grid") /\ IsNone(env.bnd_len))
    => /\ ret.err = "none"
       /\ rxn.class_ \in DOMAIN DocumentedDefaultRange
            => ret.val[1] = Ang(DocumentedDefaultRange[rxn.class_][1])

\* for the classes other than hydrogen migration the builder does return
\* the default-range grid
C11_OtherClassesUseDefault ==
  (Returned("scan_grid") /\ IsNone(env.bnd_len) /\ rxn.class_ # "HYDROGEN_MIGRATION")
    => /\ ret.err = "none"
       /\ rxn.class_ \in DOMAIN DocumentedDefaultRange
            => ret.val[1] = Ang(DocumentedDefaultRange[rxn.class_][1])

\* C12: the update_guess build_scan_info returns is TRUE for a hydrogen
\* migration and FALSE for each of the other 7 classes.
C12_UpdateGuessOnlyMigration ==
  (Returned("build_scan_info") /\ ret.err = "none")
    => (ret.val.update_guess <=> rxn.class_ = "HYDROGEN_MIGRATION")

C12_Witness ==
  /\ Returned("build_scan_info")
  /\ ret.err = "none"
  /\ rxn.class_ = "HYDROGEN_MIGRATION"
  /\ ret.val.update_guess

\* the runs of n consecutive atoms of a chain
ChainWindows(chain, n) ==
  {SubSeq(chain, j, j + n - 1) : j \in 1..(Len(chain) - n + 1)}

C14_ZmaKeysCoverGeometry ==
  (Returned("ts_zmatrix") /\ ret.err = "none")
    => /\ Len(ret.val.zma_keys) = Cardinality(ret.val.geo)
       /\ Range(ret.val.zma_keys) = ret.val.geo
       /\ Cardinality(ret.val.geo)
            = Cardinality(Atoms) + Cardinality(DOMAIN ret.val.dummy_key_dct)

C14_Witness ==
  /\ Returned("ts_zmatrix")
  /\ ret.err = "none"
  /\ rxn.class_ = "HYDROGEN_ABSTRACTION"
  /\ Cardinality(DOMAIN ret.val.dummy_key_dct) = 3
  /\ Len(ret.val.zma_keys) = Cardinality(Atoms) + 3

\* what ts_zmatrix returns for the Reaction and the geometry given as id,
\* when it is called alone
Alone(id) == TsZmatrix(given[id].rxn, given[id].env)

\* C15: ts_zmatrix leaves the Reaction it is given unchanged, and two
\* calls on the same or on different Reactions, interleaved step by step,
\* each end with what the call would return alone.
C15_ReactionUntouched ==
  /\ \A id \in SharedIds :
       heap["x"] # NoObj => heap[id] = ReactionObject(given[id].rxn, given[id].env)
  /\ \A p \in Callers :
       frames[p].pc = "done"
         => /\ frames[p].ret.err = Alone(frames[p].arg).err
            /\ frames[p].ret.val = Alone(frames[p].arg).val

C15_Witness ==
  /\ frames["a"].pc = "done"
  /\ frames["a"].ret.err = "none"
  /\ DOMAIN frames["a"].ret.val.dummy_key_dct # {}
  /\ frames["b"].pc = "vmatrix"
  /\ frames["b"].arg = frames["a"].arg
  /\ heap[frames["a"].arg].class_ = "ADDITION"

CycleCalled(keys, key, end_key) ==
  /\ Returned("cycle_ring_atom_key_to_front")
  /\ env.keys = keys
  /\ env.key = key
  /\ env.end_key = end_key

\* the keys next to key in the cycle keys
CycleNeighbours(keys, key) ==
  {keys[i] : i \in {j \in DOMAIN keys :
                      \/ keys[(j % Len(keys)) + 1] = key
                      \/ keys[((j + Len(keys) - 2) % Len(keys)) + 1] = key}}

MigrationResolved ==
  /\ Returned("scan_grid")
  /\ rxn.class_ = "HYDROGEN_MIGRATION"
  /\ ~IsNone(env.bnd_len)

\* C17: in hydrogen_migration_grid the first segment is empty exactly when
\* the forming length is at most 2.0 A, and the grid then has exactly 18
\* points; above 2.0 A the first segment has ceil((length - 2.0 A) / 0.3 A)
\* points, which is at least 1, so that the segment is never emptied by
\* the branch for a point count below 1.
C17_MigrationFirstSegment ==
  MigrationResolved
    => LET len == Get(env.bnd_len)
           npoints == CeilDiv(len - Ang(200), Ang(30))
       IN /\ ret.err = "none"
          /\ len <= Ang(200) <=> Len(ret.val) = 18
          /\ len > Ang(200) => (npoints >= 1 /\ Len(ret.val) = npoints + 18)
          /\ ret.val[Len(ret.val) - 17] = Ang(200)

C17_Witness ==
  /\ MigrationResolved
  /\ env.bnd_len = Some(Ang(215))
  /\ Len(ret.val) = 19

C17_WitnessAtTwo ==
  /\ MigrationResolved
  /\ env.bnd_len = Some(Ang(200))
  /\ Len(ret.val) = 18

StrictlyDecreasing(g) == \A i \in 1..(Len(g) - 1) : g[i] > g[i + 1]

\* C18: the grid of hydrogen_migration_grid never steps upward and never
\* repeats a value, for every forming length.
C18_MigrationGridDescends ==
  MigrationResolved => (ret.err = "none" /\ StrictlyDecreasing(ret.val))

\* below 1.95 A the grid does descend: the first segment is empty and the
\* second runs from 2.0 A down to the forming length plus 0.05 A
C18_DescendsBelow195 ==
  (MigrationResolved /\ Get(env.bnd_len) < Ang(195))
    => (ret.err = "none" /\ StrictlyDecreasing(ret.val))

EliminationCalled == Returned("scan_grid") /\ rxn.class_ = "ELIMINATION"

\* C19: elimination_grid returns two equally spaced sequences, the first
\* of 8 points from (bond + 0.2 A) to (bond + 1.4 A), with a bond of 1.54 A
\* when it is unresolved, the second of 4 points from (0.74 + 0.2) A to
\* (0.74 + 0.8) A, every Angstrom quantity converted to the working unit
\* exactly once.
C19_EliminationGridUnits ==
  EliminationCalled
    => LET bond == IF IsNone(env.bnd_len) THEN Ang(154) ELSE Get(env.bnd_len)
       IN /\ ret.err = "none"
          /\ Len(ret.val) = 2
          /\ Len(ret.val[1]) = 8
          /\ Len(ret.val[2]) = 4
          /\ Near(ret.val[1][1], bond + Ang(20))
          /\ Near(ret.val[1][8], bond + Ang(140))
          /\ Near(ret.val[2][1], Ang(94))
          /\ Near(ret.val[2][4], Ang(154))
          /\ EquallySpaced(ret.val[1])
          /\ EquallySpaced(ret.val[2])

\* the shape of the two sequences is as documented; only the units are off
C19_EliminationGridShape ==
  EliminationCalled
    => /\ ret.err = "none"
       /\ Len(ret.val) = 2
       /\ Len(ret.val[1]) = 8
       /\ Len(ret.val[2]) = 4
       /\ StrictlyIncreasing(ret.val[1])
       /\ StrictlyIncreasing(ret.val[2])

\* 0.05 A times 1.1 to the power k - 1, in the working unit
RECURSIVE DocumentedIncrement(_)
DocumentedIncrement(k) ==
  IF k = 1 THEN Ang(5) ELSE Mul(DocumentedIncrement(k - 1), D(110))

\* C20: the addition grid starts at rmin, its k-th increment is the
\* initial step 0.05 A times 1.1 to the power k - 1, it has at most the 14
\* points asked for, and no value of it equals rmax.
C20_AdditionGridProgression ==
  (Returned("scan_grid") /\ rxn.class_ = "ADDITION")
    => LET g == ret.val
           rmin == IF IsNone(env.bnd_len) THEN Ang(160) ELSE Get(env.bnd_len) + Ang(10)
           rmax == IF IsNone(env.bnd_len) THEN Ang(280) ELSE Get(env.bnd_len) + Ang(120)
       IN /\ ret.err = "none"
          /\ g[1] = rmin
          /\ Len(g) <= 14
          /\ \A k \in 1..(Len(g) - 1) : Near(g[k + 1] - g[k], DocumentedIncrement(k))
          /\ \A i \in 1..Len(g) : g[i] # rmax

\* what the code does: 15 values, the first rmin, the increments growing
\* by 1.1 from 0.05 in the working unit
C20_AdditionGridAsBuilt ==
  (Returned("scan_grid") /\ rxn.class_ = "ADDITION")
    => /\ ret.err = "none"
       /\ Len(ret.val) = 15
       /\ ret.val[2] - ret.val[1] = D(5)

InsertionKeysReturned ==
  /\ Returned("insertion_forming_bond_keys")
  /\ ret.err = "none"
  /\ Cardinality(FormingBondKeys(rxn.forward_ts_graph)) = 2

\* the sorted atom-key tuple of a comes before that of b
TupleBefore(a, b) == Min(a) < Min(b) \/ (Min(a) = Min(b) /\ Max(a) < Max(b))

\* C21: for a fixed breaking bond and two forming bonds,
\* insertion_forming_bond_keys returns the same ordered pair whatever the
\* order in which the forming-bond set is enumerated; when both or neither
\* forming bond meets the breaking bond, the bond with the smaller sorted
\* atom-key tuple comes first.
C21_InsertionKeysDeterministic ==
  InsertionKeysReturned
    => LET brk_bnd_key == TheOne(BreakingBondKeys(rxn.forward_ts_graph))
       IN /\ \A f \in Enumerations(FormingBondKeys(rxn.forward_ts_graph)) :
               InsertionFormingBondKeys(rxn, [env EXCEPT !.frm_enum = f]) = ret
          /\ IntersectionKey(ret.val[1], brk_bnd_key) = IntersectionKey(ret.val[2], brk_bnd_key)
               => TupleBefore(ret.val[1], ret.val[2])

C21_Witness ==
  /\ InsertionKeysReturned
  /\ env.frm_enum # ret.val
  /\ \A b \in FormingBondKeys(rxn.forward_ts_graph) :
       b \cap TheOne(BreakingBondKeys(rxn.forward_ts_graph)) # {}

\* C22: in every builder the linear atoms are collected, the dummy atoms
\* are inserted into the geometry and add_dummy_atoms is applied to the
\* copy before any z-matrix construction: the graph step 4 works on has
\* the atoms of the augmented geometry, dummy atoms included.
C22_DummiesBeforeZmatrix ==
  \A p \in Callers :
    LET f == frames[p] IN
    /\ f.pc \in {"add_dummy_atoms", "vmatrix"}
         => /\ Range(LinearAtoms(given[f.arg].env)) \subseteq Range(f.lin_idxs)
            /\ f.ins.geo = heap[CopyId[p]].atom_keys
                             \cup {f.ins.dummy_key_dct[a] : a \in DOMAIN f.ins.dummy_key_dct}
            /\ DOMAIN f.ins.dummy_key_dct = Range(f.lin_idxs)
    /\ f.pc = "vmatrix"
         => /\ f.rxn = DummiesId[p]
            /\ heap[f.rxn].atom_keys = f.ins.geo
    /\ (f.pc = "done" /\ f.ret.err = "none") => Range(f.ret.val.zma_keys) = f.ins.geo

C22_Witness ==
  \E c \in Classes :
    /\ frames["a"].pc = "vmatrix"
    /\ frames["a"].fun_ = TsZmatrixFunctionDct[c]
    /\ c \notin {"HYDROGEN_ABSTRACTION", "SUBSTITUTION"}
    /\ DOMAIN frames["a"].ins.dummy_key_dct # {}
    /\ frames["b"].pc = "insert_dummies"

\* the atoms a class adds to the linear atoms of the geometry
MandatoryExtras(id) ==
  LET o == ReactionObject(given[id].rxn, given[id].env) IN
  CASE o.class_ = "HYDROGEN_ABSTRACTION" ->
         {HydrogenAbstractionAtomKeys(o).val[2]}
           \cup (IF HydrogenAbstractionIsSigma(o, given[id].env).val
                 THEN {HydrogenAbstractionAtomKeys(o).val[1]} ELSE {})
    [] o.class_ = "SUBSTITUTION" -> {SubstitutionAtomKeys(o).val[2]}
    [] OTHER -> {}

LinIdxsCollected(p) ==
  frames[p].pc \in {"insert_dummies", "add_dummy_atoms", "vmatrix"}

\* C23: the list handed to insert_dummies_on_linear_atoms is the union of
\* the linear atoms of the geometry with the atoms the class adds, each
\* atom at most once.
C23_LinIdxsUnion ==
  \A p \in Callers :
    LinIdxsCollected(p)
      => /\ Range(frames[p].lin_idxs)
              = given[frames[p].arg].env.lin \cup MandatoryExtras(frames[p].arg)
         /\ Len(frames[p].lin_idxs) = Cardinality(Range(frames[p].lin_idxs))

\* as a set the list is the documented union
C23_LinIdxsAsSet ==
  \A p \in Callers :
    LinIdxsCollected(p)
      => Range(frames[p].lin_idxs)
           = given[frames[p].arg].env.lin \cup MandatoryExtras(frames[p].arg)

ZmatrixBuilt(c) ==
  /\ Returned("ts_zmatrix")
  /\ rxn.class_ = c
  /\ ret.err = "none"

\* C24: for hydrogen migration the ring order given to vmatrix begins with
\* the transferring hydrogen, has the attacking atom second and the
\* donating atom last: the bond from the last to the first ring atom is
\* the breaking bond, and the forming bond, the scan coordinate, joins the
\* first two ring atoms.
C24_MigrationRingOrder ==
  ZmatrixBuilt("HYDROGEN_MIGRATION")
    => LET k == AtomKeys(rxn).val
           n == Len(TheOne(env.rings))
           z == ret.val.zma_keys
       IN /\ z[1] = k[2]
          /\ z[2] = k[1]
          /\ z[n] = k[3]
          /\ Range(SubSeq(z, 1, n)) = Range(TheOne(env.rings))
          /\ {z[n], z[1]} \in BreakingBondKeys(rxn.forward_ts_graph)
          /\ {z[1], z[2]} = ScanCoordinate(rxn, env).val.keys

C24_Witness ==
  /\ ZmatrixBuilt("HYDROGEN_MIGRATION")
  /\ env.rings = {SortedKeys(Atoms)}
  /\ rxn.forward_ts_graph.frm = {{1, 2}}
  /\ SubSeq(ret.val.zma_keys, 1, 3) = <<2, 1, NAtoms>>

C24_WitnessUnreversed ==
  /\ ZmatrixBuilt("HYDROGEN_MIGRATION")
  /\ env.rings = {SortedKeys(Atoms)}
  /\ rxn.forward_ts_graph.frm = {{4, 5}}
  /\ SubSeq(ret.val.zma_keys, 1, 2) = <<4, 5>>

\* the ring of a ring-forming scission as its builder reorders it
ScissionRingOrder ==
  LET k == AtomKeys(rxn).val
      rng1 == CycleRingAtomKeyToFront(TheOne(env.rings), k[2], Some(k[1])).val
  IN CycleRingAtomKeyToFront(rng1, rng1[Len(rng1) - 1], None).val

\* C25: for ring-forming scission the z-matrix begins with the forming
\* ring, cycled to read (atom, attacking atom, transferring atom, ...):
\* the reordered ring is the starting order given to vmatrix.
C25_ScissionRingOrder ==
  ZmatrixBuilt("RING_FORM_SCISSION")
    => /\ ScissionRingOrder[2] = AtomKeys(rxn).val[1]
       /\ ScissionRingOrder[3] = AtomKeys(rxn).val[2]
       /\ SubSeq(ret.val.zma_keys, 1, Len(ScissionRingOrder)) = ScissionRingOrder

\* the reordered ring does read (atom, attacking atom, transferring atom,
\* ...); it is the z-matrix that does not follow it
C25_RingReordered ==
  ZmatrixBuilt("RING_FORM_SCISSION")
    => /\ ScissionRingOrder[2] = AtomKeys(rxn).val[1]
       /\ ScissionRingOrder[3] = AtomKeys(rxn).val[2]
       /\ ret.val.zma_keys = Vmatrix(ret.val.geo, None, None)

EliminationCalledOnTwo ==
  /\ Returned("ts_zmatrix")
  /\ rxn.class_ = "ELIMINATION"
  /\ Cardinality(FormingBondKeys(rxn.forward_ts_graph)) = 1
  /\ Cardinality(BreakingBondKeys(rxn.forward_ts_graph)) = 2

\* the breaking bonds that meet the forming bond
MeetingForming ==
  {b \in BreakingBondKeys(rxn.forward_ts_graph) :
     b \cap TheOne(FormingBondKeys(rxn.forward_ts_graph)) # {}}

\* C26: for elimination the breaking bond that orders the ring is the one
\* that does not meet the forming bond when exactly one does, and is the
\* same whatever the order in which the breaking bonds are enumerated when
\* both or neither do; the ring starts at that bond's atom nearer the
\* forming bond and ends at its other atom.
C26_EliminationBreakingBond ==
  EliminationCalledOnTwo
    => /\ \A b \in Enumerations(BreakingBondKeys(rxn.forward_ts_graph)) :
            TsZmatrix(rxn, [env EXCEPT !.brk_enum = b]) = ret
       /\ ret.err = "none"
            => LET z == ret.val.zma_keys
                   n == Len(TheOne(env.rings))
               IN /\ {z[1], z[n]} \in BreakingBondKeys(rxn.forward_ts_graph)
                  /\ Cardinality(MeetingForming) = 1 => {z[1], z[n]} \notin MeetingForming
                  /\ z[1] \in TheOne(FormingBondKeys(rxn.forward_ts_graph)) \cup Range(env.path)

\* what holds: when exactly one breaking bond meets the forming bond the
\* other one orders the ring, whatever the enumeration, and the ring
\* starts at its atom on the path to the forming bond
C26_OneMeetsForming ==
  (EliminationCalledOnTwo /\ Cardinality(MeetingForming) = 1)
    => /\ \A b \in Enumerations(BreakingBondKeys(rxn.forward_ts_graph)) :
            TsZmatrix(rxn, [env EXCEPT !.brk_enum = b]) = ret
       /\ ret.err = "none"
            => LET z == ret.val.zma_keys
                   n == Len(TheOne(env.rings))
               IN /\ {z[1], z[n]} \in BreakingBondKeys(rxn.forward_ts_graph) \ MeetingForming
                  /\ z[1] \in Range(env.path)

InsertionCalledOnTwo ==
  /\ Returned("ts_zmatrix")
  /\ rxn.class_ = "INSERTION"
  /\ Cardinality(FormingBondKeys(rxn.forward_ts_graph)) = 2
  /\ Cardinality(BreakingBondKeys(rxn.forward_ts_graph)) = 1
  /\ UnpacksRngKeys(env)

\* the forming bond insertion_ts_zmatrix selects: the second of
\* insertion_forming_bond_keys
SelectedFormingBond == InsertionFormingBondKeys(rxn, env).val[2]

\* C27: for insertion the ring start and end keys are the two atoms of
\* the selected forming bond, the atom nearer the breaking bond first, and
\* both are defined whether or not that forming bond shares an atom with
\* the breaking bond.
C27_InsertionRingKeys ==
  InsertionCalledOnTwo
    => /\ ret.err \notin {"UnboundLocalError", "NameError"}
       /\ ret.err = "none"
            => LET z == ret.val.zma_keys
                   n == Len(TheOne(env.rings))
               IN /\ {z[1], z[n]} = SelectedFormingBond
                  /\ z[1] \in TheOne(BreakingBondKeys(rxn.forward_ts_graph))
                                \cup Range(env.path)

\* what holds: when the selected forming bond shares an atom with the
\* breaking bond the ring starts at that atom and ends at the bond's other
\* atom; when it shares none no z-matrix is returned
C27_SharedAtomCase ==
  InsertionCalledOnTwo
    => LET brk_bnd_key == TheOne(BreakingBondKeys(rxn.forward_ts_graph)) IN
       IF SelectedFormingBond \cap brk_bnd_key # {}
       THEN ret.err = "none"
              => LET z == ret.val.zma_keys
                     n == Len(TheOne(env.rings))
                 IN /\ {z[1]} = SelectedFormingBond \cap brk_bnd_key
                    /\ {z[n]} = SelectedFormingBond \ brk_bnd_key
       ELSE ret.err \in {"UnboundLocalError", "ValueError"}

ScanBond(r, e) ==
  CASE r.class_ \in {"HYDROGEN_MIGRATION", "ELIMINATION", "HYDROGEN_ABSTRACTION",
                     "ADDITION", "SUBSTITUTION"} ->
         TheOne(FormingBondKeys(r.forward_ts_graph))
    [] r.class_ \in {"BETA_SCISSION", "RING_FORM_SCISSION"} ->
         TheOne(BreakingBondKeys(r.forward_ts_graph))
    [] r.class_ = "INSERTION" -> InsertionFormingBondKeys(r, e).val[1]

\* a grid whose range starts from the reference length len (ends on it,
\* for hydrogen migration)
Anchored(c, g, len) ==
  CASE c = "HYDROGEN_MIGRATION" -> g[Len(g)] = len + Ang(5)
    [] c \in {"BETA_SCISSION", "RING_FORM_SCISSION", "HYDROGEN_ABSTRACTION", "ADDITION"} ->
         g[1] = len + Ang(10)
    [] c = "ELIMINATION" -> g[1][1] = Mul(len + D(20), ANG2BOHR)
    [] c \in {"INSERTION", "SUBSTITUTION"} -> g[1] = len

\* C29: the scan coordinate is the distance of the single forming bond for
\* hydrogen migration, elimination, hydrogen abstraction, addition and
\* substitution, of the single breaking bond for beta scission and
\* ring-forming scission, and of the first bond of
\* insertion_forming_bond_keys for insertion; the grid of each class takes
\* its range from the reference length of that coordinate.
C29_GridOnScanCoordinate ==
  (Returned("scan_grid") /\ ret.err = "none")
    => /\ ScanCoordinate(rxn, env).err = "none"
       /\ ScanCoordinate(rxn, env).val = DistanceCoordinateName(ScanBond(rxn, env))
       /\ env.len_key = ScanBond(rxn, env)
       /\ IF IsNone(env.bnd_len)
          THEN ~Anchored(rxn.class_, ret.val, Get(OtherBndLen))
          ELSE Anchored(rxn.class_, ret.val, Get(env.bnd_len))

C29_Witness ==
  /\ Returned("scan_grid")
  /\ ret.err = "none"
  /\ rxn.class_ = "RING_FORM_SCISSION"
  /\ env.bnd_len = Some(Ang(150))
  /\ ret.val[1] = Ang(150) + Ang(10)

C29_WitnessInsertion ==
  /\ Returned("scan_grid")
  /\ ret.err = "none"
  /\ rxn.class_ = "INSERTION"
  /\ env.frm_enum[1] # ScanBond(rxn, env)
  /\ ret.val[1] = Ang(150)

ScissionConstraints ==
  /\ Returned("build_scan_info")
  /\ ret.err = "none"
  /\ rxn.class_ = "RING_FORM_SCISSION"

\* the names of coordinate coo among the entries lo..hi of the constraints
NamesOf(dct, lo, hi, coo) ==
  {dct[i].keys : i \in {j \in lo..hi : dct[j].coo = coo}}

\* the constraints of a chain of n >= 4 atoms: n-3 central angles, one for
\* every 3 consecutive atoms of the chain without its first atom, then n-3
\* dihedrals, one for every 4 consecutive atoms of the chain
LongChainConstraints(dct, chain) ==
  LET m == Len(chain) - 3 IN
  /\ Len(dct) = 2 * m
  /\ \A i \in 1..m : dct[i].coo = "central_angle"
  /\ \A i \in (m + 1)..(2 * m) : dct[i].coo = "dihedral_angle"
  /\ NamesOf(dct, 1, m, "central_angle") = ChainWindows(Tail(chain), 3)
  /\ NamesOf(dct, m + 1, 2 * m, "dihedral_angle") = ChainWindows(chain, 4)

\* C30: for a ring-forming scission whose chain from the donating atom to
\* the attacking atom has n >= 4 atoms, the constraint coordinates are
\* exactly n-3 central angles, one per window of 3 consecutive atoms of
\* the chain without the donating atom, followed by n-3 dihedrals, one per
\* window of 4 consecutive atoms of the whole chain; for a chain of fewer
\* than 4 atoms, where every window has a missing atom, there is no
\* constraint.
C30_ConstraintWindows ==
  ScissionConstraints
    => LET dct == ret.val.constraint_dct
           chain == env.chain
       IN /\ Len(chain) >= 4 => LongChainConstraints(dct, chain)
          /\ Len(chain) < 4 => Len(dct) = 0

\* the part of C30 that holds: the chains of 4 atoms or more
C30_LongChains ==
  (ScissionConstraints /\ Len(env.chain) >= 4)
    => LongChainConstraints(ret.val.constraint_dct, env.chain)

\* a chain of 3 atoms gives one padded window of each kind, and each is
\* turned into a constraint
C30_ShortChainPadded ==
  (ScissionConstraints /\ Len(env.chain) < 4)
    => /\ Len(ret.val.constraint_dct) = 2
       /\ ret.val.constraint_dct[1].coo = "central_angle"
       /\ Len(ret.val.constraint_dct[1].keys) = 3
       /\ ret.val.constraint_dct[2].coo = "dihedral_angle"
       /\ Len(ret.val.constraint_dct[2].keys) = 4

C30_WitnessShort ==
  /\ ScissionConstraints
  /\ Len(env.chain) = 3

C30_WitnessLong ==
  /\ ScissionConstraints
  /\ Len(env.chain) = 5
  /\ ret.val.constraint_dct[3].coo = "dihedral_angle"

====
